---- MODULE Spec2Model ----
(***************************************************************************)
(* Model of the schema-migration executor of go-postgres                   *)
(* (Database.RunMigrations, Database.WithinConn, Conn.WithinTx) running    *)
(* against one PostgreSQL server: a pool of sessions, one session-level    *)
(* advisory lock, the ledger table and the effects of the steps' SQL.      *)
(*                                                                         *)
(* Every store operation of the code is one action.  A store operation     *)
(* called with a context that is already done fails without reaching the   *)
(* server; a context cancelled while an operation is in flight makes the   *)
(* driver close the connection, which ends the session on the server.      *)
(***************************************************************************)
EXTENDS Integers, Sequences, FiniteSets, TLC

\* ------------------------------------------------------------------ bounds
NumRuns == 2
NumConns == 2
NumSteps == 2
MaxLockCount == 2
NumDbs == 2
MaxTableLen == 2
MaxPieces == 5
NumGoroutines == 2
MaxCalls == 3
MaxDepth == 1
MaxCopyCalls == 5

Runs == 1..NumRuns
Conns == 1..NumConns
NoConn == 0
Dbs == 1..NumDbs
Goroutines == 1..NumGoroutines

\* ------------------------------------------------------------------ state
VARIABLES
    pc,          \* pc[r]: position of invocation r inside RunMigrations
    ctxDone,     \* ctxDone[r]: the caller's context of r is cancelled/expired
    conn,        \* conn[r]: the pooled connection r borrowed (NoConn: none)
    stepIdx,     \* stepIdx[r]: the local variable stepIdx
    stepInfo,    \* stepInfo[r]: the step last returned by the provider
    err,         \* err[r]: the error the WithinConn callback returns
    tx,          \* tx[r]: the transaction of the current step
    connOwner,   \* connOwner[c]: the run holding c, 0 when c idles in the pool
    lockCount,   \* lockCount[c]: times session c holds the advisory lock
    tableExists, \* the ledger table exists
    ledger,      \* committed rows of the ledger table
    applied,     \* applied[i]: times the SQL of step i has been committed
    calls,       \* history: indices r passed to the provider, in order
    held,        \* history: 1 while r's own lock acquisition is not released
    resolved,    \* history: the max id r's resume query saw (-1: not run)
    snap,        \* history: the ledger as r's current step began
    commits,     \* history: the ids r committed
    lastFailed,  \* history: index of the step that failed last, 0 once a
                 \* later step has committed
    dbName,      \* dbName[d]: opts.Name given to New for Database d (bytes)
    nameHash,    \* nameHash[d]: the field db.nameHash (empty before New)
    tableName,   \* the tableName argument of RunMigrations (bytes)
    lockId,      \* lockId[d]: the lock id RunMigrations computed on d
    script,      \* the pieces the tokenizer's input is made of
    content,     \* the content argument of CreateMigrationStepsFromSqlContent
    parsed,      \* what CreateMigrationStepsFromSqlContent returned
    loop,        \* the locals of a call of the tokenizer that is under way
    errLast,     \* the field db.err.last ("nil": no error is latched)
    errHandler,  \* the field db.err.handler ("nil": none registered)
    errMutex,    \* the goroutine holding db.err.mutex, 0 when it is free
    poolOpen,    \* db.pool is not nil
    gpc,         \* gpc[g]: position of goroutine g in the Database's methods
    pending,     \* pending[g]: the argument of the method g is inside
    depth,       \* depth[g]: handler frames below g's current call
    hcalls,      \* history: arguments the registered handler was called with
    regClear,    \* history: db.err.last was nil when the handler was set
    copyCounter, \* the field counter of a copyWithCallback
    copyData,    \* the field data of the copyWithCallback (NoData: nil)
    copyErr,     \* the field err of the copyWithCallback
    cbLog,       \* history: the callback's invocations and what they returned
    copyTrace    \* history: the calls of Next and Values and their results

vars == <<pc, ctxDone, conn, stepIdx, stepInfo, err, tx, connOwner,
          lockCount, tableExists, ledger, applied, calls, held, resolved,
          snap, commits, lastFailed, dbName, nameHash, tableName, lockId,
          script, content, parsed, loop, errLast, errHandler, errMutex,
          poolOpen, gpc, pending, depth, hcalls, regClear, copyCounter,
          copyData, copyErr, cbLog, copyTrace>>

serverVars == <<connOwner, lockCount, tableExists, ledger, applied>>
histVars == <<calls, held, resolved, snap, commits, lastFailed>>
keyVars == <<dbName, nameHash, tableName, lockId>>
tokVars == <<script, content, parsed, loop>>
latchVars == <<errLast, errHandler, errMutex, poolOpen, gpc, pending, depth,
               hcalls, regClear>>
copyVars == <<copyCounter, copyData, copyErr, cbLog, copyTrace>>

\* ------------------------------------------------------------------ data
\* MigrationStep; the empty struct signals the end.
EmptyStep == [Name |-> "", SequenceNo |-> 0, Sql |-> ""]

\* The caller's MigrationStepCallback: the same step for the same index, as
\* in runMigrationTest (two statements of block "v1", then further blocks).
\* The last step has a name and no SQL sentence.
Provider(i) ==
    IF i >= 1 /\ i <= NumSteps
    THEN [Name |-> IF i <= 2 THEN "v1" ELSE "v2",
          SequenceNo |-> IF i <= 2 THEN i ELSE i - 2,
          Sql |-> IF i = NumSteps THEN "" ELSE "sql"]
    ELSE EmptyStep

NoTx == [open |-> FALSE, sql |-> FALSE, row |-> FALSE]

Ids(l) == {row.id : row \in l}

\* The query with ORDER BY id ASC.
MaxIdAscending(l) ==
    IF l = {} THEN 0 ELSE CHOOSE m \in Ids(l) : \A k \in Ids(l) : k >= m

\* SELECT id FROM ledger ORDER BY id DESC LIMIT 1 (0 stands for "no row").
MaxId(l) == IF l = {} THEN 0 ELSE CHOOSE m \in Ids(l) : \A k \in Ids(l) : k <= m

\* newError: pgx.ErrNoRows becomes errNoRows, everything else keeps its kind.
newError(e) == IF e = "pgx.ErrNoRows" THEN "errNoRows" ELSE e

IsNoRowsErrorNever(e) == FALSE

\* IsNoRowsError: errors.As(err, *NoRowsError).
IsNoRowsError(e) == e = "errNoRows"

processErrorDropped(e) == "nil"

\* processError hands the error back unchanged (ErrNoRows normalised).
processError(e) == IF e = "pgx.ErrNoRows" THEN "errNoRows" ELSE e

\* The advisory lock is session scoped and re-entrant: a session gets it
\* when no other session holds it.
LockFree(c) == \A d \in Conns : d # c => lockCount[d] = 0

\* ------------------------------------------------------------------ lock id
\* Database names and ledger table names, as byte strings ("c", "e"; names
\* over "a", "b").
DbNames == {<<99>>, <<101>>}
TableBytes == {97, 98}
TableNames == UNION {[1..n -> TableBytes] : n \in 0..MaxTableLen}

NoHash == <<>>
NoKey == <<>>

\* New: h := sha256.New(); h.Write([]byte(opts.Name)); copy(db.nameHash[:],
\* h.Sum(nil)).  The digests of the names above.
Sha256(name) ==
    CASE name = <<99>> ->
           <<46, 125, 44, 3, 169, 80, 122, 226, 101, 236, 245, 181,
             53, 104, 133, 165, 51, 147, 162, 2, 157, 36, 19, 148,
             153, 114, 101, 161, 162, 90, 239, 198>>
      [] name = <<101>> ->
           <<63, 121, 187, 123, 67, 91, 5, 50, 22, 81, 218, 239,
             211, 116, 205, 198, 129, 220, 6, 250, 166, 94, 55, 78,
             56, 51, 123, 136, 202, 4, 109, 234>>

\* a XOR b on n-bit values.
RECURSIVE XorBits(_, _, _)
XorBits(a, b, n) ==
    IF n = 0 THEN 0
    ELSE (((a % 2) + (b % 2)) % 2) + 2 * XorBits(a \div 2, b \div 2, n - 1)

\* 64-bit values are kept as their 8 bytes, least significant first.
\* hash/fnv: offset64 = 14695981039346656037, prime64 = 1099511628211.
Fnv64Offset == <<37, 35, 34, 132, 228, 156, 242, 203>>
Fnv64Prime == <<179, 1, 0, 0, 0, 1, 0, 0>>

\* Byte column k of h * prime64 before carries.
RECURSIVE ColSum(_, _, _)
ColSum(h, k, i) ==
    IF i = 0 THEN 0 ELSE h[i] * Fnv64Prime[k - i + 1] + ColSum(h, k, i - 1)

RECURSIVE MulPrimeFrom(_, _, _)
MulPrimeFrom(h, k, carry) ==
    IF k > Len(h) THEN <<>>
    ELSE LET s == ColSum(h, k, k) + carry
         IN  <<s % 256>> \o MulPrimeFrom(h, k + 1, s \div 256)

\* h * prime64 modulo 2^64.
MulPrime(h) == MulPrimeFrom(h, 1, 0)

\* (*sum64a).Write: for each byte, hash ^= byte; hash *= prime64 (the hash
\* state always has its 8 bytes).
RECURSIVE Fnv64aWrite(_, _)
Fnv64aWrite(h, data) ==
    IF Len(data) = 0 \/ Len(h) = 0 THEN h
    ELSE Fnv64aWrite(MulPrime([h EXCEPT ![1] = XorBits(@, Head(data), 8)]),
                     Tail(data))

\* h & math.MaxInt64.
MaskMaxInt64(h) == [h EXCEPT ![Len(h)] = @ % 128]

\* The hash without the mask.
getMigrationLockIdUnmasked(hash, table) ==
    Fnv64aWrite(Fnv64aWrite(Fnv64Offset, hash), table)

\* getMigrationLockId: fnv.New64a() over db.nameHash, then the table name,
\* masked to a non-negative int64.
getMigrationLockId(hash, table) ==
    MaskMaxInt64(Fnv64aWrite(Fnv64aWrite(Fnv64Offset, hash), table))

\* ------------------------------------------------------------------ tokenizer
\* A script is a sequence of bytes, each written as a one-character string;
\* "<C3>" and "<A9>" are the two bytes of a two-byte UTF-8 character,
\* "<EF>", "<BF>" and "<BD>" are the three bytes of the character U+FFFD
\* (the value of utf8.RuneError) and "<FF>" is a byte that is no valid UTF-8.

\* s[a:b] and s[a:] with Go's offsets (from 0).
Slice(s, a, b) == SubSeq(s, a + 1, b)
From(s, a) == SubSeq(s, a + 1, Len(s))

\* utf8.RuneError as the decoded rune.
RuneError == "<RuneError>"

\* utf8.DecodeRuneInString: the rune at the start of s and its width.
DecodeRuneInString(s) ==
    IF Len(s) = 0 THEN [r |-> RuneError, size |-> 0]
    ELSE IF s[1] = "<C3>"
         THEN IF Len(s) >= 2 /\ s[2] = "<A9>"
              THEN [r |-> "<C3><A9>", size |-> 2]
              ELSE [r |-> RuneError, size |-> 1]
    ELSE IF s[1] = "<EF>"
         THEN IF Len(s) >= 3 /\ s[2] = "<BF>" /\ s[3] = "<BD>"
              THEN [r |-> RuneError, size |-> 3]
              ELSE [r |-> RuneError, size |-> 1]
    ELSE IF s[1] \in {"<A9>", "<BF>", "<BD>", "<FF>"}
         THEN [r |-> RuneError, size |-> 1]
    ELSE [r |-> s[1], size |-> 1]

\* skipSpaces: the number of leading spaces and tabs.
RECURSIVE skipSpaces(_)
skipSpaces(s) ==
    IF Len(s) > 0 /\ s[1] \in {" ", "\t"} THEN 1 + skipSpaces(Tail(s)) ELSE 0

\* skipEol: the number of leading CR and LF.
RECURSIVE skipEol(_)
skipEol(s) ==
    IF Len(s) > 0 /\ s[1] \in {"\r", "\n"} THEN 1 + skipEol(Tail(s)) ELSE 0

\* findEol: the offset of the first CR or LF, the length when there is none.
IndexByte(s, b) ==
    LET is == {i \in 1..Len(s) : s[i] = b} IN
    IF is = {} THEN -1 ELSE (CHOOSE i \in is : \A j \in is : i <= j) - 1

findEol(s) ==
    LET eolOfs == IF IndexByte(s, "\n") < 0 THEN Len(s)
                  ELSE IndexByte(s, "\n")
        eolOfs2 == IndexByte(s, "\r")
    IN  IF eolOfs2 >= 0 /\ eolOfs2 < eolOfs THEN eolOfs2 ELSE eolOfs

\* shouldIgnoreLine: > 0 (the bytes to skip) for a blank line and for a
\* comment that does not start at the first byte.
shouldIgnoreLineNoComment(s) ==
    LET ofs == skipSpaces(s) IN
    IF ofs >= Len(s) THEN ofs
    ELSE IF s[ofs + 1] \in {"\r", "\n"} THEN ofs + skipEol(From(s, ofs))
    ELSE 0

shouldIgnoreLineNever(s) == 0

shouldIgnoreLine(s) ==
    LET ofs == skipSpaces(s) IN
    IF ofs >= Len(s) THEN ofs
    ELSE IF s[ofs + 1] \in {"\r", "\n"} THEN ofs + skipEol(From(s, ofs))
    ELSE IF s[ofs + 1] = "#" /\ ofs > 0
         THEN LET e == ofs + findEol(From(s, ofs))
              IN  e + skipEol(From(s, e))
    ELSE 0

\* strings.Trim(s, cutset).
RECURSIVE TrimLeft(_, _)
TrimLeft(s, cutset) ==
    IF Len(s) > 0 /\ s[1] \in cutset THEN TrimLeft(Tail(s), cutset) ELSE s

RECURSIVE TrimRight(_, _)
TrimRight(s, cutset) ==
    IF Len(s) > 0 /\ s[Len(s)] \in cutset
    THEN TrimRight(SubSeq(s, 1, Len(s) - 1), cutset)
    ELSE s

TrimSpaces(s, cutset) == TrimRight(TrimLeft(s, {" ", "\t"}), {" ", "\t"})

Trim(s, cutset) == TrimRight(TrimLeft(s, cutset), cutset)

\* r == utf8.RuneError for r, _ := utf8.DecodeLastRuneInString(s): the last
\* bytes are no complete character, or they are the character U+FFFD.
EndsInvalidRune(s) ==
    /\ Len(s) > 0
    /\ \/ s[Len(s)] \in {"<C3>", "<FF>", "<EF>", "<BF>", "<BD>"}
       \/ s[Len(s)] = "<A9>" /\ (Len(s) < 2 \/ s[Len(s) - 1] # "<C3>")

\* The loop of truncStrBytes: drop bytes from the end until the string is
\* empty or ends with a valid character.
RECURSIVE DropInvalidTail(_)
DropInvalidTail(s) ==
    IF Len(s) > 0 /\ EndsInvalidRune(s)
    THEN DropInvalidTail(SubSeq(s, 1, Len(s) - 1))
    ELSE s

\* truncStrBytes(s, maxBytes).
truncStrBytes(s, maxBytes) ==
    IF Len(s) <= maxBytes THEN s ELSE DropInvalidTail(SubSeq(s, 1, maxBytes))

\* strings.Index(s, sub): the offset of the first occurrence, -1 for none.
RECURSIVE IndexFrom(_, _, _)
IndexFrom(s, sub, i) ==
    IF i + Len(sub) > Len(s) THEN -1
    ELSE IF Slice(s, i, i + Len(sub)) = sub THEN i
    ELSE IndexFrom(s, sub, i + 1)

Index(s, sub) == IndexFrom(s, sub, 0)

\* The characters allowed between the dollars of a tag, [A-Za-z0-9_], among
\* the bytes of the model.
TagChars == {"_", "0", "1", "a", "b", "c", "t", "x", "y", "A", "Z"}

\* Results of the scanning loops: the offset after the span, or the error.
ScanOk(ofs) == [ok |-> TRUE, ofs |-> ofs, err |-> ""]
ScanErr(e) == [ok |-> FALSE, ofs |-> 0, err |-> e]

\* The loop over a single-quoted string, ofs after the opening quote: the
\* string ends at a quote that is not followed by another quote.
ScanSingleQuoteUnquoted(c, ofs) == ScanOk(ofs)

RECURSIVE ScanSingleQuote(_, _)
ScanSingleQuote(c, ofs) ==
    IF ofs >= Len(c) THEN ScanErr("invalid SQL content (open string)")
    ELSE LET d == DecodeRuneInString(From(c, ofs)) IN
         IF d.r = RuneError \/ d.size = 0
         THEN ScanErr("invalid SQL content (invalid char)")
         ELSE LET o == ofs + d.size IN
              IF d.r = "'"
              THEN IF o >= Len(c) \/ c[o + 1] # "'"
                   THEN ScanOk(o)
                   ELSE ScanSingleQuote(c, o + 1)
              ELSE ScanSingleQuote(c, o)

\* The loop over a double-quoted string, ofs after the opening quote: a
\* backslash escapes the next character.
RECURSIVE ScanDoubleQuote(_, _, _)
ScanDoubleQuote(c, ofs, escapedCharacter) ==
    IF ofs >= Len(c) THEN ScanErr("invalid SQL content (open string)")
    ELSE LET d == DecodeRuneInString(From(c, ofs)) IN
         IF d.r = RuneError \/ d.size = 0
         THEN ScanErr("invalid SQL content (invalid char)")
         ELSE LET o == ofs + d.size IN
              IF escapedCharacter THEN ScanDoubleQuote(c, o, FALSE)
              ELSE IF d.r = "\"" THEN ScanOk(o)
              ELSE ScanDoubleQuote(c, o, d.r = "\\")

\* The loop over an opening dollar tag, ofs after the first '$'.
RECURSIVE ScanDollarTagAnyChar(_, _)
ScanDollarTagAnyChar(c, ofs) ==
    IF ofs >= Len(c) THEN ScanErr("invalid SQL content (dollar tag)")
    ELSE IF c[ofs + 1] = "$" THEN ScanOk(ofs + 1)
    ELSE ScanDollarTagAnyChar(c, ofs + 1)

RECURSIVE ScanDollarTag(_, _)
ScanDollarTag(c, ofs) ==
    IF ofs >= Len(c) THEN ScanErr("invalid SQL content (dollar tag)")
    ELSE IF c[ofs + 1] = "$" THEN ScanOk(ofs + 1)
    ELSE IF c[ofs + 1] \notin TagChars
         THEN ScanErr("invalid SQL content (dollar tag)")
    ELSE ScanDollarTag(c, ofs + 1)

\* The dollar-quoted span that starts at ofs: the tag, then everything up to
\* and including the next occurrence of the tag.
ScanDollarSpanAnyTag(c, ofs) ==
    LET t == ScanDollarTag(c, ofs + 1) IN
    IF ~t.ok THEN t
    ELSE LET deltaOfs == Index(From(c, t.ofs), <<"$", "$">>) IN
         IF deltaOfs < 0
         THEN ScanErr("invalid SQL content (open dollar tag)")
         ELSE ScanOk(t.ofs + deltaOfs + 2)

ScanDollarSpan(c, ofs) ==
    LET t == ScanDollarTag(c, ofs + 1) IN
    IF ~t.ok THEN t
    ELSE LET tag == Slice(c, ofs, t.ofs)
             deltaOfs == Index(From(c, t.ofs), tag)
         IN  IF deltaOfs < 0
             THEN ScanErr("invalid SQL content (open dollar tag)")
             ELSE ScanOk(t.ofs + deltaOfs + Len(tag))

\* What CreateMigrationStepsFromSqlContent returns: (steps, nil) or
\* (nil, error).
ParseOk(steps) == [steps |-> steps, isNil |-> FALSE, err |-> "nil"]
ParsePartial(steps, e) == [steps |-> steps, isNil |-> FALSE, err |-> e]
ParseError(steps, e) == [steps |-> <<>>, isNil |-> TRUE, err |-> e]

\* steps = append(steps, MigrationStep{...}) with the ';' written to the
\* statement.
AppendStepFront(steps, name, seqNo, sql) ==
    <<[Name |-> name, SequenceNo |-> seqNo, Sql |-> sql \o <<";">>]>> \o steps

AppendStepNoSemicolon(steps, name, seqNo, sql) ==
    Append(steps, [Name |-> name, SequenceNo |-> seqNo, Sql |-> sql])

AppendStep(steps, name, seqNo, sql) ==
    Append(steps, [Name |-> name, SequenceNo |-> seqNo,
                   Sql |-> sql \o <<";">>])

\* currentSql.WriteString / WriteRune after the pending space.
WriteSql(sql, addSpace, text) ==
    IF addSpace THEN sql \o <<" ">> \o text ELSE sql \o text

\* A '#' inside a statement: ofs += 1; ofs += findEol(content[ofs:]).
SkipCommentHashOnly(c, ofs) == ofs + 1

SkipCommentStay(c, ofs) == ofs

SkipComment(c, ofs) == ofs + 1 + findEol(From(c, ofs + 1))

\* The length limit of a block name.
MaxNameBytes == 255

\* The outer loop at offset ofs (ParseOuter) and the statement loop
\* (ParseSql) with the statement buffer and the pending-space flag.
RECURSIVE ParseOuter(_, _, _, _, _)
RECURSIVE ParseSql(_, _, _, _, _, _, _)
ParseOuter(c, ofs, steps, currentName, currentSeqNo) ==
    IF ofs >= Len(c) THEN ParseOk(steps)
    ELSE LET deltaOfs == shouldIgnoreLine(From(c, ofs)) IN
         IF deltaOfs > 0
         THEN ParseOuter(c, ofs + deltaOfs, steps, currentName, currentSeqNo)
         ELSE IF c[ofs + 1] = "#"
         THEN LET e == ofs + findEol(From(c, ofs))
                  name == truncStrBytes(
                              Trim(Slice(c, ofs, e), {" ", "\t", "-", "=", "#"}),
                              MaxNameBytes)
              IN  IF Len(name) = 0
                  THEN ParseError(steps, "empty start of block comment")
                  ELSE ParseOuter(c, e, steps, name, 1)
         ELSE IF Len(currentName) = 0
         THEN ParseError(steps, "SQL sentence found outside a block")
         ELSE ParseSql(c, ofs, steps, currentName, currentSeqNo, <<>>, FALSE)

ParseSql(c, ofs, steps, currentName, currentSeqNo, sql, addSpace) ==
    IF ofs >= Len(c)
    THEN IF Len(sql) > 0
         THEN ParseOuter(c, ofs, AppendStep(steps, currentName, currentSeqNo, sql),
                         currentName, currentSeqNo + 1)
         ELSE ParseOuter(c, ofs, steps, currentName, currentSeqNo)
    ELSE IF skipSpaces(From(c, ofs)) > 0
    THEN ParseSql(c, ofs + skipSpaces(From(c, ofs)), steps, currentName,
                  currentSeqNo, sql, TRUE)
    ELSE IF skipEol(From(c, ofs)) > 0
    THEN ParseSql(c, ofs + skipEol(From(c, ofs)), steps, currentName,
                  currentSeqNo, sql, TRUE)
    ELSE IF c[ofs + 1] = "#"
    THEN ParseSql(c, SkipComment(c, ofs), steps, currentName,
                  currentSeqNo, sql, TRUE)
    ELSE IF c[ofs + 1] = ";"
    THEN IF Len(sql) > 0
         THEN ParseOuter(c, ofs + 1,
                         AppendStep(steps, currentName, currentSeqNo, sql),
                         currentName, currentSeqNo + 1)
         ELSE ParseOuter(c, ofs + 1, steps, currentName, currentSeqNo)
    ELSE IF c[ofs + 1] \in {"'", "\"", "$"}
    THEN LET span == IF c[ofs + 1] = "'" THEN ScanSingleQuote(c, ofs + 1)
                     ELSE IF c[ofs + 1] = "\""
                          THEN ScanDoubleQuote(c, ofs + 1, FALSE)
                          ELSE ScanDollarSpan(c, ofs)
         IN  IF ~span.ok THEN ParseError(steps, span.err)
             ELSE ParseSql(c, span.ofs, steps, currentName, currentSeqNo,
                           WriteSql(sql, addSpace, Slice(c, ofs, span.ofs)),
                           FALSE)
    ELSE LET d == DecodeRuneInString(From(c, ofs)) IN
         IF d.r = RuneError \/ d.size = 0
         THEN ParseError(steps, "invalid SQL content (invalid char)")
         ELSE ParseSql(c, ofs + d.size, steps, currentName, currentSeqNo,
                       WriteSql(sql, addSpace, Slice(c, ofs, ofs + d.size)),
                       FALSE)

\* CreateMigrationStepsFromSqlContent(content).
CreateMigrationStepsFromSqlContent(c) ==
    ParseOuter(c, 0, <<>>, <<>>, 1)

\* ------------------------------------------------------------------ Init
\* The Database as New returns it: no handler, no latched error, the mutex
\* free, the pool open, no goroutine inside a method.
LatchIdle ==
    /\ errLast = "nil"
    /\ errHandler = "nil"
    /\ errMutex = 0
    /\ poolOpen = TRUE
    /\ gpc = [g \in Goroutines |-> "idle"]
    /\ pending = [g \in Goroutines |-> "nil"]
    /\ depth = [g \in Goroutines |-> 0]
    /\ hcalls = <<>>
    /\ regClear = TRUE

\* A row the callback has not produced: the nil slice.
NoData == -1

\* &copyWithCallback{ctx: ctx, callback: callback}: the zero value of the
\* other fields.
CopyIdle ==
    /\ copyCounter = 0
    /\ copyData = NoData
    /\ copyErr = "nil"
    /\ cbLog = <<>>
    /\ copyTrace = <<>>

\* No invocation of RunMigrations has started; the store is empty.
RunInit ==
    /\ LatchIdle
    /\ CopyIdle
    /\ pc = [r \in Runs |-> "idle"]
    /\ ctxDone = [r \in Runs |-> FALSE]
    /\ conn = [r \in Runs |-> NoConn]
    /\ stepIdx = [r \in Runs |-> 0]
    /\ stepInfo = [r \in Runs |-> EmptyStep]
    /\ err = [r \in Runs |-> "nil"]
    /\ tx = [r \in Runs |-> NoTx]
    /\ connOwner = [c \in Conns |-> 0]
    /\ lockCount = [c \in Conns |-> 0]
    /\ tableExists = FALSE
    /\ ledger = {}
    /\ applied = [i \in 1..NumSteps |-> 0]
    /\ calls = [r \in Runs |-> <<>>]
    /\ held = [r \in Runs |-> 0]
    /\ resolved = [r \in Runs |-> -1]
    /\ snap = [r \in Runs |-> {}]
    /\ commits = [r \in Runs |-> {}]
    /\ lastFailed = 0

\* The runs of the model all use Database objects of one database name and
\* one ledger table.
KeyFixed ==
    /\ dbName = [d \in Dbs |-> <<99>>]
    /\ nameHash = [d \in Dbs |-> Sha256(<<99>>)]
    /\ tableName = <<97>>
    /\ lockId = [d \in Dbs |-> NoKey]

\* CreateMigrationStepsFromSqlContent has not been called.
NotParsed == [steps |-> <<>>, isNil |-> TRUE, err |-> "not called"]

\* No call of the tokenizer is under way.
NoLoop ==
    [mode |-> "idle", ofs |-> 0, iterOfs |-> 0, steps |-> <<>>,
     currentName |-> <<>>, currentSeqNo |-> 0, currentSql |-> <<>>,
     addSpace |-> FALSE, result |-> NotParsed]

TokIdle ==
    /\ script = <<>>
    /\ content = <<>>
    /\ parsed = NotParsed
    /\ loop = NoLoop

Init ==
    /\ RunInit
    /\ KeyFixed
    /\ TokIdle

\* ------------------------------------------------------------------ actions
\* RunMigrations is called: lock id computed, table name quoted, WithinConn.
Invoke(r) ==
    /\ pc[r] = "idle"
    /\ pc' = [pc EXCEPT ![r] = "acquire"]
    /\ UNCHANGED <<ctxDone, conn, stepIdx, stepInfo, err, tx>>
    /\ UNCHANGED serverVars
    /\ UNCHANGED histVars
    /\ UNCHANGED keyVars
    /\ UNCHANGED tokVars
    /\ UNCHANGED latchVars
    /\ UNCHANGED copyVars

\* The caller's context is cancelled or its deadline passes while the
\* provider callback runs or when the callback of WithinConn has just ended.
\* (A cancellation right before a store operation is that operation's
\* "context already done" outcome.)
Cancel(r) ==
    /\ pc[r] \in {"provider", "unlock"}
    /\ ~ctxDone[r]
    /\ ctxDone' = [ctxDone EXCEPT ![r] = TRUE]
    /\ UNCHANGED <<pc, conn, stepIdx, stepInfo, err, tx>>
    /\ UNCHANGED serverVars
    /\ UNCHANGED histVars
    /\ UNCHANGED keyVars
    /\ UNCHANGED tokVars
    /\ UNCHANGED latchVars
    /\ UNCHANGED copyVars

\* WithinConn: db.pool.Acquire(ctx) waits for an idle connection; with a
\* context that is done it fails, the callback is not run and RunMigrations
\* returns the error.
Acquire(r) ==
    /\ pc[r] = "acquire"
    /\ \/ /\ pc' = [pc EXCEPT ![r] = "idle"]
          /\ UNCHANGED <<ctxDone, conn, connOwner>>
       \/ /\ \E c \in Conns :
                /\ connOwner[c] = 0
                /\ connOwner' = [connOwner EXCEPT ![c] = r]
                /\ conn' = [conn EXCEPT ![r] = c]
          /\ pc' = [pc EXCEPT ![r] = "lock"]
          /\ UNCHANGED ctxDone
    /\ UNCHANGED <<err, stepIdx, stepInfo, tx>>
    /\ UNCHANGED <<lockCount, tableExists, ledger, applied>>
    /\ UNCHANGED histVars
    /\ UNCHANGED keyVars
    /\ UNCHANGED tokVars
    /\ UNCHANGED latchVars
    /\ UNCHANGED copyVars

\* A store operation is issued with the caller's context: the context is
\* already done (cancelled earlier, or right before the call), and the
\* operation fails without reaching the server ...
CtxDone(r) == ctxDone' = [ctxDone EXCEPT ![r] = TRUE]

\* ... or the context is live and the operation reaches the server.
CtxLive(r) == ~ctxDone[r] /\ UNCHANGED ctxDone

\* Exit of the WithinConn callback after the defer is registered: the error
\* is kept and the deferred unlock runs next.
Fail(r, e) ==
    /\ err' = [err EXCEPT ![r] = e]
    /\ pc' = [pc EXCEPT ![r] = "unlock"]

\* conn.Exec(ctx, "SELECT pg_advisory_lock($1)", lockId): blocks while another
\* session holds the lock; on error the callback returns before the defer.
LockSkipped(r) ==
    /\ pc[r] = "lock"
    /\ pc' = [pc EXCEPT ![r] = "create"]
    /\ UNCHANGED <<ctxDone, conn, stepIdx, stepInfo, err, tx>>
    /\ UNCHANGED serverVars
    /\ UNCHANGED histVars
    /\ UNCHANGED keyVars
    /\ UNCHANGED tokVars
    /\ UNCHANGED latchVars
    /\ UNCHANGED copyVars

\* pg_advisory_lock issued through the pool (db.Exec) instead of the borrowed
\* connection: it runs on whichever connection the pool hands out.
LockOnPool(r) ==
    /\ pc[r] = "lock"
    /\ CtxLive(r)
    /\ \E c \in Conns :
         /\ connOwner[c] \in {0, r}
         /\ LockFree(c)
         /\ lockCount[c] < MaxLockCount
         /\ lockCount' = [lockCount EXCEPT ![c] = @ + 1]
    /\ held' = [held EXCEPT ![r] = 1]
    /\ pc' = [pc EXCEPT ![r] = "create"]
    /\ UNCHANGED <<conn, stepIdx, stepInfo, err, tx>>
    /\ UNCHANGED <<connOwner, tableExists, ledger, applied>>
    /\ UNCHANGED <<calls, resolved, snap, commits, lastFailed>>
    /\ UNCHANGED keyVars
    /\ UNCHANGED tokVars
    /\ UNCHANGED latchVars
    /\ UNCHANGED copyVars

\* A callback that goes on after pg_advisory_lock returned an error.
LockErrorIgnored(r) ==
    /\ pc[r] = "lock"
    /\ \/ /\ CtxLive(r)
          /\ err' = [err EXCEPT ![r] = "lockErr"]
          /\ pc' = [pc EXCEPT ![r] = "create"]
          /\ UNCHANGED <<lockCount, held>>
       \/ /\ CtxLive(r)
          /\ LockFree(conn[r])
          /\ lockCount[conn[r]] < MaxLockCount
          /\ lockCount' = [lockCount EXCEPT ![conn[r]] = @ + 1]
          /\ held' = [held EXCEPT ![r] = 1]
          /\ pc' = [pc EXCEPT ![r] = "create"]
          /\ UNCHANGED err
    /\ UNCHANGED <<conn, stepIdx, stepInfo, tx>>
    /\ UNCHANGED <<connOwner, tableExists, ledger, applied>>
    /\ UNCHANGED <<calls, resolved, snap, commits, lastFailed>>
    /\ UNCHANGED keyVars
    /\ UNCHANGED tokVars
    /\ UNCHANGED latchVars
    /\ UNCHANGED copyVars

Lock(r) ==
    /\ pc[r] = "lock"
    /\ \/ /\ CtxDone(r)
          /\ err' = [err EXCEPT ![r] = "ctxErr"]
          /\ pc' = [pc EXCEPT ![r] = "release"]
          /\ UNCHANGED <<lockCount, held>>
       \/ /\ CtxLive(r)
          /\ err' = [err EXCEPT ![r] = "lockErr"]
          /\ pc' = [pc EXCEPT ![r] = "release"]
          /\ UNCHANGED <<lockCount, held>>
       \/ /\ CtxLive(r)
          /\ LockFree(conn[r])
          /\ lockCount[conn[r]] < MaxLockCount
          /\ lockCount' = [lockCount EXCEPT ![conn[r]] = @ + 1]
          /\ held' = [held EXCEPT ![r] = 1]
          /\ pc' = [pc EXCEPT ![r] = "create"]
          /\ UNCHANGED err
    /\ UNCHANGED <<conn, stepIdx, stepInfo, tx>>
    /\ UNCHANGED <<connOwner, tableExists, ledger, applied>>
    /\ UNCHANGED <<calls, resolved, snap, commits, lastFailed>>
    /\ UNCHANGED keyVars
    /\ UNCHANGED tokVars
    /\ UNCHANGED latchVars
    /\ UNCHANGED copyVars

\* conn.Exec(ctx, "CREATE TABLE IF NOT EXISTS ...").
CreateTable(r) ==
    /\ pc[r] = "create"
    /\ \/ /\ CtxDone(r)
          /\ Fail(r, "ctxErr")
          /\ UNCHANGED tableExists
       \/ /\ CtxLive(r)
          /\ Fail(r, "createErr")
          /\ UNCHANGED tableExists
       \/ /\ CtxLive(r)
          /\ tableExists' = TRUE
          /\ pc' = [pc EXCEPT ![r] = "resolve"]
          /\ UNCHANGED err
    /\ UNCHANGED <<conn, stepIdx, stepInfo, tx>>
    /\ UNCHANGED <<connOwner, lockCount, ledger, applied>>
    /\ UNCHANGED histVars
    /\ UNCHANGED keyVars
    /\ UNCHANGED tokVars
    /\ UNCHANGED latchVars
    /\ UNCHANGED copyVars

\* The resume index from the outcome of row.Scan(&stepIdx): e is the error
\* Scan returned (already known to be nil or a no-rows error), id the value
\* scanned.
NextStepIdxOffByOne(id, e) == IF e = "nil" THEN id + 1 ELSE 2

NextStepIdxSame(id, e) == IF e = "nil" THEN id ELSE 1

NextStepIdx(id, e) == IF e = "nil" THEN id + 1 ELSE 1

\* What the driver's Scan yields for SELECT id ... ORDER BY id DESC LIMIT 1.
ScanOutcomes(done) ==
    IF done THEN {"ctxErr"}
    ELSE {"queryErr"} \cup
         (IF ~tableExists THEN {}
          ELSE IF ledger = {} THEN {"pgx.ErrNoRows"} ELSE {"nil"})

\* conn.QueryRow(...) and row.Scan(&stepIdx); rowGetter.Scan wraps the error
\* with newError and passes it through processError.
Resolve(r) ==
    /\ pc[r] = "resolve"
    /\ \E done \in BOOLEAN : \E raw \in ScanOutcomes(done) :
         LET e == processError(newError(raw)) IN
         /\ ctxDone[r] => done
         /\ ctxDone' = [ctxDone EXCEPT ![r] = done]
         /\ IF e = "nil" \/ IsNoRowsError(e)
            THEN /\ stepIdx' = [stepIdx EXCEPT ![r] = NextStepIdx(MaxId(ledger), e)]
                 /\ resolved' = [resolved EXCEPT ![r] = MaxId(ledger)]
                 /\ pc' = [pc EXCEPT ![r] = "provider"]
                 /\ UNCHANGED err
            ELSE /\ Fail(r, e)
                 /\ UNCHANGED <<stepIdx, resolved>>
    /\ UNCHANGED <<conn, stepInfo, tx>>
    /\ UNCHANGED serverVars
    /\ UNCHANGED <<calls, held, snap, commits, lastFailed>>
    /\ UNCHANGED keyVars
    /\ UNCHANGED tokVars
    /\ UNCHANGED latchVars
    /\ UNCHANGED copyVars

\* A loop that asks the provider again after it returned an error.
CallProviderRetry(r) ==
    /\ pc[r] = "provider"
    /\ calls' = [calls EXCEPT ![r] = Append(@, stepIdx[r])]
    /\ \/ /\ Len(calls[r]) <= NumSteps
          /\ err' = [err EXCEPT ![r] = "cbErr"]
          /\ UNCHANGED <<pc, stepInfo>>
       \/ /\ stepInfo' = [stepInfo EXCEPT ![r] = Provider(stepIdx[r])]
          /\ IF Len(Provider(stepIdx[r]).Name) = 0
             THEN Fail(r, "nil")
             ELSE /\ pc' = [pc EXCEPT ![r] = "begin"]
                  /\ UNCHANGED err
    /\ UNCHANGED <<ctxDone, conn, stepIdx, tx>>
    /\ UNCHANGED serverVars
    /\ UNCHANGED <<held, resolved, snap, commits, lastFailed>>
    /\ UNCHANGED keyVars
    /\ UNCHANGED tokVars
    /\ UNCHANGED latchVars
    /\ UNCHANGED copyVars

\* cb(ctx, int(stepIdx)): the provider returns an error or its step for the
\* index; a step with an empty name ends the loop with a nil error.
CallProvider(r) ==
    /\ pc[r] = "provider"
    /\ calls' = [calls EXCEPT ![r] = Append(@, stepIdx[r])]
    /\ \/ /\ Fail(r, "cbErr")
          /\ UNCHANGED stepInfo
       \/ /\ stepInfo' = [stepInfo EXCEPT ![r] = Provider(stepIdx[r])]
          /\ IF Len(Provider(stepIdx[r]).Name) = 0
             THEN Fail(r, "nil")
             ELSE /\ pc' = [pc EXCEPT ![r] = "begin"]
                  /\ UNCHANGED err
    /\ UNCHANGED <<ctxDone, conn, stepIdx, tx>>
    /\ UNCHANGED serverVars
    /\ UNCHANGED <<held, resolved, snap, commits, lastFailed>>
    /\ UNCHANGED keyVars
    /\ UNCHANGED tokVars
    /\ UNCHANGED latchVars
    /\ UNCHANGED copyVars

\* Conn.WithinTx after the callback returned e: commit only on a nil error,
\* otherwise roll back.
AfterCallbackAlwaysCommit(e) == "commit"

\* A WithinTx that starts the transaction again after a failed callback.
AfterCallbackRetry(e) == IF e = "nil" THEN "commit" ELSE "begin"

AfterCallback(e) == IF e = "nil" THEN "commit" ELSE "rollback"

\* Conn.WithinTx: c.conn.BeginTx(ctx, ...); a failure is returned through
\* processError and ends RunMigrations.
BeginTx(r) ==
    /\ pc[r] = "begin"
    /\ snap' = [snap EXCEPT ![r] = ledger]
    /\ \/ /\ CtxDone(r)
          /\ Fail(r, processError(newError("ctxErr")))
          /\ lastFailed' = stepIdx[r]
          /\ UNCHANGED tx
       \/ /\ CtxLive(r)
          /\ Fail(r, processError(newError("beginErr")))
          /\ lastFailed' = stepIdx[r]
          /\ UNCHANGED tx
       \/ /\ CtxLive(r)
          /\ tx' = [tx EXCEPT ![r] = [open |-> TRUE, sql |-> FALSE, row |-> FALSE]]
          /\ pc' = [pc EXCEPT ![r] = "execSql"]
          /\ UNCHANGED <<err, lastFailed>>
    /\ UNCHANGED <<conn, stepIdx, stepInfo>>
    /\ UNCHANGED serverVars
    /\ UNCHANGED <<calls, held, resolved, commits>>
    /\ UNCHANGED keyVars
    /\ UNCHANGED tokVars
    /\ UNCHANGED latchVars
    /\ UNCHANGED copyVars

\* tx.Exec(ctx, stepInfo.Sql): on failure the callback returns stepErr
\* without attempting the ledger insert.
ExecSql(r) ==
    /\ pc[r] = "execSql"
    /\ \/ /\ CtxDone(r)
          /\ err' = [err EXCEPT ![r] = "ctxErr"]
          /\ pc' = [pc EXCEPT ![r] = AfterCallback("ctxErr")]
          /\ lastFailed' = stepIdx[r]
          /\ UNCHANGED tx
       \/ /\ CtxLive(r)
          /\ err' = [err EXCEPT ![r] = "sqlErr"]
          /\ pc' = [pc EXCEPT ![r] = AfterCallback("sqlErr")]
          /\ lastFailed' = stepIdx[r]
          /\ UNCHANGED tx
       \/ /\ CtxLive(r)
          /\ tx' = [tx EXCEPT ![r].sql = TRUE]
          /\ pc' = [pc EXCEPT ![r] = "insert"]
          /\ UNCHANGED <<err, lastFailed>>
    /\ UNCHANGED <<conn, stepIdx, stepInfo>>
    /\ UNCHANGED serverVars
    /\ UNCHANGED <<calls, held, resolved, snap, commits>>
    /\ UNCHANGED keyVars
    /\ UNCHANGED tokVars
    /\ UNCHANGED latchVars
    /\ UNCHANGED copyVars

\* An INSERT that binds a constant instead of stepInfo.SequenceNo.
LedgerRowSeqOne(r) ==
    [id |-> stepIdx[r], name |-> stepInfo[r].Name, sequence |-> 1]

\* The row the INSERT of the current step writes.
LedgerRow(r) ==
    [id |-> stepIdx[r], name |-> stepInfo[r].Name,
     sequence |-> stepInfo[r].SequenceNo]

\* id is the primary key: an insert of a committed id fails, an insert of an
\* id another open transaction has inserted waits for that transaction.
PendingElsewhere(r, id) ==
    \E q \in Runs : q # r /\ tx[q].open /\ tx[q].row /\ stepIdx[q] = id

\* The ledger INSERT issued on the connection instead of the transaction.
ExecInsertOnConn(r) ==
    /\ pc[r] = "insert"
    /\ ~ctxDone[r]
    /\ stepIdx[r] \notin Ids(ledger)
    /\ ledger' = ledger \cup {LedgerRow(r)}
    /\ pc' = [pc EXCEPT ![r] = AfterCallback("nil")]
    /\ UNCHANGED <<ctxDone, conn, stepIdx, stepInfo, err, tx>>
    /\ UNCHANGED <<connOwner, lockCount, tableExists, applied>>
    /\ UNCHANGED histVars
    /\ UNCHANGED keyVars
    /\ UNCHANGED tokVars
    /\ UNCHANGED latchVars
    /\ UNCHANGED copyVars

\* tx.Exec(ctx, "INSERT INTO ledger (id, name, sequence, executedAt) ...",
\* stepIdx, stepInfo.Name, stepInfo.SequenceNo); the callback returns its
\* error.
ExecInsert(r) ==
    /\ pc[r] = "insert"
    /\ \/ /\ CtxDone(r)
          /\ err' = [err EXCEPT ![r] = "ctxErr"]
          /\ pc' = [pc EXCEPT ![r] = AfterCallback("ctxErr")]
          /\ lastFailed' = stepIdx[r]
          /\ UNCHANGED tx
       \/ /\ CtxLive(r)
          /\ ~PendingElsewhere(r, stepIdx[r])
          /\ err' = [err EXCEPT ![r] = "insertErr"]
          /\ pc' = [pc EXCEPT ![r] = AfterCallback("insertErr")]
          /\ lastFailed' = stepIdx[r]
          /\ UNCHANGED tx
       \/ /\ CtxLive(r)
          /\ ~PendingElsewhere(r, stepIdx[r])
          /\ stepIdx[r] \notin Ids(ledger)
          /\ tx' = [tx EXCEPT ![r].row = TRUE]
          /\ pc' = [pc EXCEPT ![r] = AfterCallback("nil")]
          /\ UNCHANGED <<err, lastFailed>>
    /\ UNCHANGED <<conn, stepIdx, stepInfo>>
    /\ UNCHANGED serverVars
    /\ UNCHANGED <<calls, held, resolved, snap, commits>>
    /\ UNCHANGED keyVars
    /\ UNCHANGED tokVars
    /\ UNCHANGED latchVars
    /\ UNCHANGED copyVars

\* "Increment index".
IncrementIndexByTwo(i) == i + 2

IncrementIndexNone(i) == i

IncrementIndex(i) == i + 1

\* innerTx.Commit(ctx): on success the step's effects and its ledger row
\* become durable together, WithinTx returns nil and the loop increments the
\* index; on failure the error is wrapped and the transaction rolled back.
Commit(r) ==
    /\ pc[r] = "commit"
    /\ \/ /\ CtxDone(r)
          /\ err' = [err EXCEPT ![r] = newError("ctxErr")]
          /\ pc' = [pc EXCEPT ![r] = "rollback"]
          /\ lastFailed' = stepIdx[r]
          /\ UNCHANGED <<tx, ledger, applied, stepIdx, commits>>
       \/ /\ CtxLive(r)
          /\ err' = [err EXCEPT ![r] = newError("commitErr")]
          /\ pc' = [pc EXCEPT ![r] = "rollback"]
          /\ lastFailed' = stepIdx[r]
          /\ UNCHANGED <<tx, ledger, applied, stepIdx, commits>>
       \/ /\ CtxLive(r)
          /\ ledger' = IF tx[r].row THEN ledger \cup {LedgerRow(r)} ELSE ledger
          /\ applied' = IF tx[r].sql /\ stepIdx[r] \in DOMAIN applied
                        THEN [applied EXCEPT ![stepIdx[r]] = @ + 1]
                        ELSE applied
          /\ commits' = [commits EXCEPT ![r] =
                            IF tx[r].row THEN @ \cup {stepIdx[r]} ELSE @]
          /\ tx' = [tx EXCEPT ![r] = NoTx]
          /\ stepIdx' = [stepIdx EXCEPT ![r] = IncrementIndex(@)]
          /\ pc' = [pc EXCEPT ![r] = "provider"]
          /\ err' = [err EXCEPT ![r] = processError("nil")]
          /\ lastFailed' = 0
    /\ UNCHANGED <<conn, stepInfo>>
    /\ UNCHANGED <<connOwner, lockCount, tableExists>>
    /\ UNCHANGED <<calls, held, resolved, snap>>
    /\ UNCHANGED keyVars
    /\ UNCHANGED tokVars
    /\ UNCHANGED latchVars
    /\ UNCHANGED copyVars

\* innerTx.Rollback(context.Background()): runs even when the caller's
\* context is done; WithinTx then returns the error and RunMigrations
\* returns it.
RollbackCallerCtx(r) ==
    /\ pc[r] = "rollback"
    /\ tx' = [tx EXCEPT ![r] = IF ctxDone[r] THEN @ ELSE NoTx]
    /\ Fail(r, processError(err[r]))
    /\ UNCHANGED <<ctxDone, conn, stepIdx, stepInfo>>
    /\ UNCHANGED serverVars
    /\ UNCHANGED histVars
    /\ UNCHANGED keyVars
    /\ UNCHANGED tokVars
    /\ UNCHANGED latchVars
    /\ UNCHANGED copyVars

Rollback(r) ==
    /\ pc[r] = "rollback"
    /\ tx' = [tx EXCEPT ![r] = NoTx]
    /\ Fail(r, processError(err[r]))
    /\ UNCHANGED <<ctxDone, conn, stepIdx, stepInfo>>
    /\ UNCHANGED serverVars
    /\ UNCHANGED histVars
    /\ UNCHANGED keyVars
    /\ UNCHANGED tokVars
    /\ UNCHANGED latchVars
    /\ UNCHANGED copyVars

\* RunMigrations returns: the invocation's locals and its context are gone
\* and the caller may invoke RunMigrations again.
Returned(r) ==
    /\ pc' = [pc EXCEPT ![r] = "idle"]
    /\ ctxDone' = [ctxDone EXCEPT ![r] = FALSE]
    /\ conn' = [conn EXCEPT ![r] = NoConn]
    /\ stepIdx' = [stepIdx EXCEPT ![r] = 0]
    /\ stepInfo' = [stepInfo EXCEPT ![r] = EmptyStep]
    /\ err' = [err EXCEPT ![r] = "nil"]
    /\ calls' = [calls EXCEPT ![r] = <<>>]
    /\ held' = [held EXCEPT ![r] = 0]
    /\ resolved' = [resolved EXCEPT ![r] = -1]
    /\ snap' = [snap EXCEPT ![r] = {}]
    /\ commits' = [commits EXCEPT ![r] = {}]

\* The session's lock count after the deferred
\* conn.Exec(ctx, "SELECT pg_advisory_unlock($1)", lockId): the statement uses
\* the caller's context, so with a context that is done it is never sent; its
\* error is dropped.
AfterUnlock(done, count) == IF done \/ count = 0 THEN count ELSE count - 1

\* The error of that deferred statement: the context's error when the
\* context is done.
UnlockError(done) == IF done THEN "ctxErr" ELSE "nil"

\* What RunMigrations returns: WithinConn's processError(err) of the
\* callback's result; the deferred function assigns nothing to it.
ReturnValue(r) == processError(err[r])

\* The callback of WithinConn returns err[r]: the deferred unlock runs, then
\* WithinConn hands the connection back to the pool (conn.Release()) and
\* returns processError(err).
Exit(r) ==
    /\ pc[r] = "unlock"
    /\ lockCount' = [lockCount EXCEPT ![conn[r]] = AfterUnlock(ctxDone[r], @)]
    /\ connOwner' = [connOwner EXCEPT ![conn[r]] = 0]
    /\ Returned(r)
    /\ UNCHANGED <<tx, lastFailed>>
    /\ UNCHANGED <<tableExists, ledger, applied>>
    /\ UNCHANGED keyVars
    /\ UNCHANGED tokVars
    /\ UNCHANGED latchVars
    /\ UNCHANGED copyVars

\* pg_advisory_lock failed: the callback returned before the defer, WithinConn
\* hands the connection back and returns processError(err).
ReleaseConn(r) ==
    /\ pc[r] = "release"
    /\ connOwner' = [connOwner EXCEPT ![conn[r]] = 0]
    /\ Returned(r)
    /\ UNCHANGED <<tx, lastFailed>>
    /\ UNCHANGED <<lockCount, tableExists, ledger, applied>>
    /\ UNCHANGED keyVars
    /\ UNCHANGED tokVars
    /\ UNCHANGED latchVars
    /\ UNCHANGED copyVars

\* The positions at which a store operation taking the caller's context is
\* in flight.
InFlightPcs ==
    {"lock", "create", "resolve", "begin", "execSql", "insert", "commit"}

\* The caller's context is cancelled while a store operation of r is in
\* flight: the operation fails, the driver closes the connection and the
\* server ends the session, which aborts its transaction and drops its
\* advisory locks.  The later rollback and unlock find a closed connection.
CancelInFlight(r) ==
    /\ pc[r] \in InFlightPcs
    /\ ~ctxDone[r]
    /\ ctxDone' = [ctxDone EXCEPT ![r] = TRUE]
    /\ lockCount' = [lockCount EXCEPT ![conn[r]] = 0]
    /\ held' = [held EXCEPT ![r] = 0]
    /\ tx' = [tx EXCEPT ![r] = NoTx]
    /\ err' = [err EXCEPT ![r] = processError(newError("ctxErr"))]
    /\ pc' = [pc EXCEPT ![r] = IF pc[r] = "lock" THEN "release" ELSE "unlock"]
    /\ lastFailed' = IF pc[r] \in {"begin", "execSql", "insert", "commit"}
                     THEN stepIdx[r] ELSE lastFailed
    /\ snap' = [snap EXCEPT ![r] = IF pc[r] = "begin" THEN ledger ELSE @]
    /\ UNCHANGED <<conn, stepIdx, stepInfo>>
    /\ UNCHANGED <<connOwner, tableExists, ledger, applied>>
    /\ UNCHANGED <<calls, resolved, commits>>
    /\ UNCHANGED keyVars
    /\ UNCHANGED tokVars
    /\ UNCHANGED latchVars
    /\ UNCHANGED copyVars

\* The pool closes an idle connection (MaxConnIdleTime, MaxConnLifetime,
\* failed health check) and opens a fresh one in its place: the old session
\* ends, and with it any advisory lock it still held.
ConnExpire(c) ==
    /\ connOwner[c] = 0
    /\ lockCount[c] > 0
    /\ lockCount' = [lockCount EXCEPT ![c] = 0]
    /\ UNCHANGED <<pc, ctxDone, conn, stepIdx, stepInfo, err, tx>>
    /\ UNCHANGED <<connOwner, tableExists, ledger, applied>>
    /\ UNCHANGED histVars
    /\ UNCHANGED keyVars
    /\ UNCHANGED tokVars
    /\ UNCHANGED latchVars
    /\ UNCHANGED copyVars

\* ------------------------------------------------------------------ spec
Next ==
    \/ \E c \in Conns : ConnExpire(c)
    \/ \E r \in Runs :
        \/ Invoke(r)
        \/ Cancel(r)
        \/ CancelInFlight(r)
        \/ Acquire(r)
        \/ Lock(r)
        \/ CreateTable(r)
        \/ Resolve(r)
        \/ CallProvider(r)
        \/ BeginTx(r)
        \/ ExecSql(r)
        \/ ExecInsert(r)
        \/ Commit(r)
        \/ Rollback(r)
        \/ Exit(r)
        \/ ReleaseConn(r)

Spec == Init /\ [][Next]_vars

\* ------------------------------------------------------------------ lock id spec
\* Database objects are created for any of the names and RunMigrations
\* computes its lock id for any of the table names.
KeyInit ==
    /\ RunInit
    /\ dbName \in [Dbs -> DbNames]
    /\ nameHash = [d \in Dbs |-> NoHash]
    /\ tableName \in TableNames
    /\ lockId = [d \in Dbs |-> NoKey]
    /\ TokIdle

\* New(ctx, opts) for Database d: the name hash is stored in the object.
New(d) ==
    /\ nameHash[d] = NoHash
    /\ nameHash' = [nameHash EXCEPT ![d] = Sha256(dbName[d])]
    /\ UNCHANGED <<dbName, tableName, lockId>>
    /\ UNCHANGED <<pc, ctxDone, conn, stepIdx, stepInfo, err, tx>>
    /\ UNCHANGED serverVars
    /\ UNCHANGED histVars
    /\ UNCHANGED tokVars
    /\ UNCHANGED latchVars
    /\ UNCHANGED copyVars

\* lockId := db.getMigrationLockId(tableName), first statement of
\* RunMigrations.
ComputeLockId(d) ==
    /\ nameHash[d] # NoHash
    /\ lockId[d] = NoKey
    /\ lockId' = [lockId EXCEPT ![d] = getMigrationLockId(nameHash[d], tableName)]
    /\ UNCHANGED <<dbName, nameHash, tableName>>
    /\ UNCHANGED <<pc, ctxDone, conn, stepIdx, stepInfo, err, tx>>
    /\ UNCHANGED serverVars
    /\ UNCHANGED histVars
    /\ UNCHANGED tokVars
    /\ UNCHANGED latchVars
    /\ UNCHANGED copyVars

KeyNext == \E d \in Dbs : New(d) \/ ComputeLockId(d)

KeySpec == KeyInit /\ [][KeyNext]_vars

\* ------------------------------------------------------------------ tokenizer spec
\* The scripts made of at most n of the pieces in P.
RECURSIVE Scripts(_, _)
Scripts(P, n) ==
    IF n = 0 THEN {<<>>}
    ELSE LET S == Scripts(P, n - 1)
         IN  S \cup {Append(sc, p) : sc \in S, p \in P}

\* The bytes of a script: its pieces one after the other.
RECURSIVE Flatten(_)
Flatten(sc) == IF Len(sc) = 0 THEN <<>> ELSE Head(sc) \o Flatten(Tail(sc))

\* The caller holds a script made of the pieces in P.
TokInit(P) ==
    /\ RunInit
    /\ KeyFixed
    /\ script \in Scripts(P, MaxPieces)
    /\ content = Flatten(script)
    /\ parsed = NotParsed
    /\ loop = NoLoop

\* steps, err := CreateMigrationStepsFromSqlContent(content).
ParseContent ==
    /\ parsed = NotParsed
    /\ parsed' = CreateMigrationStepsFromSqlContent(content)
    /\ UNCHANGED <<script, content, loop>>
    /\ UNCHANGED <<pc, ctxDone, conn, stepIdx, stepInfo, err, tx>>
    /\ UNCHANGED serverVars
    /\ UNCHANGED histVars
    /\ UNCHANGED keyVars
    /\ UNCHANGED latchVars
    /\ UNCHANGED copyVars

TokNext == ParseContent

\* Pieces of well-formed scripts: two block headers, two terminated
\* statements, a blank line and a '#' line that is indented.
HeaderA == <<"#", "a", "\n">>
HeaderB == <<"#", " ", "-", "b", "=", "\n">>
StmtX == <<"x", ";">>
StmtY == <<"y", ";", "\n">>
BlankLine == <<"\n">>
IndentedHash == <<" ", "\t", "#", "c", "\n">>

BlockPieces == {HeaderA, HeaderB, StmtX, StmtY, BlankLine, IndentedHash}

BlockInit == TokInit(BlockPieces)

BlockSpec == BlockInit /\ [][TokNext]_vars

\* Scripts of statement pieces that follow the header of a block.
StmtInit(P) ==
    /\ RunInit
    /\ KeyFixed
    /\ script \in Scripts(P, MaxPieces)
    /\ content = HeaderA \o Flatten(script)
    /\ parsed = NotParsed
    /\ loop = NoLoop

\* Pieces of statements: a word, blanks, the terminator, a comment line.
Word == <<"x">>
Space == <<" ">>
Tab == <<"\t">>
Newline == <<"\n">>
Semi == <<";">>
Comment == <<"#", "c", "\n">>

\* A single-quoted string with a ';', a doubled quote, a '#' and two spaces,
\* and a double-quoted identifier with a ';', an escaped quote, a '#', a
\* newline and a space.
QuoteS == <<"'", ";", "'", "'", "#", " ", " ", "'">>
QuoteD == <<"\"", ";", "\\", "\"", "#", "\n", " ", "\"">>

QuotePieces == {Word, Space, Semi, QuoteS, QuoteD}

QuoteInit == StmtInit(QuotePieces)

QuoteSpec == QuoteInit /\ [][TokNext]_vars

\* Pieces of malformed scripts: an unterminated single-quoted string, an
\* unterminated double-quoted identifier, an unterminated dollar body, a
\* byte that is not valid UTF-8 and a header with nothing but trimmed
\* characters.
OpenS == <<"'", "y">>
OpenD == <<"\"", "y">>
OpenDollar == <<"$", "t", "$", "y">>
BadChar == <<"<FF>">>
EmptyHeader == <<"#", "-", "=", " ", "\t", "#", "\n">>

StatementText == {StmtX, OpenS, OpenD, OpenDollar, BadChar}

ErrorPieces == {HeaderA, StmtX, BlankLine, OpenS, OpenD, OpenDollar,
                BadChar, EmptyHeader}

ErrorInit == TokInit(ErrorPieces)

ErrorSpec == ErrorInit /\ [][TokNext]_vars

\* Statements of words separated by blanks and comment lines.
SpacePieces == {Word, Space, Tab, Newline, Comment, Semi}

SpaceInit == StmtInit(SpacePieces)

SpaceSpec == SpaceInit /\ [][TokNext]_vars

\* Header texts around the length limit of a name: a run of 'a' followed
\* by characters of one, two and three bytes, all valid UTF-8; the header is
\* followed by one statement.
CharA == <<"a">>
CharE == <<"<C3>", "<A9>">>
CharFFFD == <<"<EF>", "<BF>", "<BD>">>

NamePieces == {CharA, CharE, CharFFFD}

PadLens == (MaxNameBytes - 5)..(MaxNameBytes + 1)

Pad(k) == [i \in 1..k |-> "a"]

NameInit ==
    /\ RunInit
    /\ KeyFixed
    /\ \E k \in PadLens : \E t \in Scripts(NamePieces, MaxPieces) :
           script = <<Pad(k)>> \o t
    /\ content = <<"#", " ">> \o Flatten(script) \o <<"\n", "x", ";">>
    /\ parsed = NotParsed
    /\ loop = NoLoop

NameSpec == NameInit /\ [][TokNext]_vars

\* A dollar-quoted body with the empty tag that holds a ';', a '#', a
\* quote, a newline, another tag and two spaces, and one with the tag $t$
\* that holds a ';', the empty tag, a double quote, another tag and a
\* newline.
DollarEmpty == <<"$", "$", ";", "#", "'", "\n", "$", "t", "$", " ", " ",
                 "$", "$">>
DollarT == <<"$", "t", "$", ";", "$", "$", "\"", "$", "A", "_", "1", "$",
             "\n", "$", "t", "$">>

DollarPieces == {Word, Space, Semi, DollarEmpty, DollarT}

DollarInit == StmtInit(DollarPieces)

DollarSpec == DollarInit /\ [][TokNext]_vars

\* Statements with positional parameters: "$1" before a space, before the
\* terminator and at the end of the input, and "$1" in a comment line.
ParamSp == <<"$", "1", " ">>
ParamSemi == <<"$", "1", ";">>
ParamEnd == <<"$", "1">>
CommentParam == <<"#", "$", "1", "\n">>

ParamPieces == {Word, Semi, ParamSp, ParamSemi, CommentParam, DollarT}

ParamInit ==
    /\ RunInit
    /\ KeyFixed
    /\ \E t \in Scripts(ParamPieces, MaxPieces) : \E e \in {<<>>, <<ParamEnd>>} :
           script = t \o e
    /\ content = HeaderA \o Flatten(script)
    /\ parsed = NotParsed
    /\ loop = NoLoop

ParamSpec == ParamInit /\ [][TokNext]_vars

\* The tokenizer one loop iteration at a time.  OuterIteration is one pass
\* through the head of the outer loop (the loop test, an ignored line, a
\* block header, or the entry into the statement loop); SqlIteration is one
\* pass through the statement loop, or its exit with the code that follows
\* it.  iterOfs is the offset at which the current pass of the outer loop
\* began.
LoopReturn(l, res) == [l EXCEPT !.mode = "done", !.result = res]

OuterIteration(c, l) ==
    IF l.ofs >= Len(c) THEN LoopReturn(l, ParseOk(l.steps))
    ELSE LET deltaOfs == shouldIgnoreLine(From(c, l.ofs)) IN
         IF deltaOfs > 0
         THEN [l EXCEPT !.ofs = l.ofs + deltaOfs, !.iterOfs = l.ofs + deltaOfs]
         ELSE IF c[l.ofs + 1] = "#"
         THEN LET e == l.ofs + findEol(From(c, l.ofs))
                  name == truncStrBytes(
                              Trim(Slice(c, l.ofs, e), {" ", "\t", "-", "=", "#"}),
                              MaxNameBytes)
              IN  IF Len(name) = 0
                  THEN LoopReturn(l, ParseError(l.steps,
                                      "empty start of block comment"))
                  ELSE [l EXCEPT !.ofs = e, !.iterOfs = e,
                                 !.currentName = name, !.currentSeqNo = 1]
         ELSE IF Len(l.currentName) = 0
         THEN LoopReturn(l, ParseError(l.steps,
                             "SQL sentence found outside a block"))
         ELSE [l EXCEPT !.mode = "sql", !.currentSql = <<>>,
                        !.addSpace = FALSE]

\* "if currentSql.Len() > 0": the statement becomes a step.
EmitStep(l) ==
    IF Len(l.currentSql) > 0
    THEN [l EXCEPT !.steps = AppendStep(l.steps, l.currentName,
                                        l.currentSeqNo, l.currentSql),
                   !.currentSql = <<>>,
                   !.currentSeqNo = l.currentSeqNo + 1]
    ELSE l

SqlIteration(c, l) ==
    IF l.ofs >= Len(c)
    THEN [EmitStep(l) EXCEPT !.mode = "outer", !.iterOfs = l.ofs]
    ELSE IF skipSpaces(From(c, l.ofs)) > 0
    THEN [l EXCEPT !.ofs = l.ofs + skipSpaces(From(c, l.ofs)),
                   !.addSpace = TRUE]
    ELSE IF skipEol(From(c, l.ofs)) > 0
    THEN [l EXCEPT !.ofs = l.ofs + skipEol(From(c, l.ofs)),
                   !.addSpace = TRUE]
    ELSE IF c[l.ofs + 1] = "#"
    THEN [l EXCEPT !.ofs = SkipComment(c, l.ofs), !.addSpace = TRUE]
    ELSE IF c[l.ofs + 1] = ";"
    THEN [EmitStep(l) EXCEPT !.mode = "outer", !.ofs = l.ofs + 1,
                             !.iterOfs = l.ofs + 1, !.addSpace = FALSE]
    ELSE IF c[l.ofs + 1] \in {"'", "\"", "$"}
    THEN LET span == IF c[l.ofs + 1] = "'" THEN ScanSingleQuote(c, l.ofs + 1)
                     ELSE IF c[l.ofs + 1] = "\""
                          THEN ScanDoubleQuote(c, l.ofs + 1, FALSE)
                          ELSE ScanDollarSpan(c, l.ofs)
         IN  IF ~span.ok THEN LoopReturn(l, ParseError(l.steps, span.err))
             ELSE [l EXCEPT !.ofs = span.ofs,
                            !.currentSql = WriteSql(l.currentSql, l.addSpace,
                                               Slice(c, l.ofs, span.ofs)),
                            !.addSpace = FALSE]
    ELSE LET d == DecodeRuneInString(From(c, l.ofs)) IN
         IF d.r = RuneError \/ d.size = 0
         THEN LoopReturn(l, ParseError(l.steps,
                             "invalid SQL content (invalid char)"))
         ELSE [l EXCEPT !.ofs = l.ofs + d.size,
                        !.currentSql = WriteSql(l.currentSql, l.addSpace,
                                           Slice(c, l.ofs, l.ofs + d.size)),
                        !.addSpace = FALSE]

\* The locals at the first test of the outer loop.
LoopEntry ==
    [mode |-> "outer", ofs |-> 0, iterOfs |-> 0, steps |-> <<>>,
     currentName |-> <<>>, currentSeqNo |-> 1, currentSql |-> <<>>,
     addSpace |-> FALSE, result |-> NotParsed]

\* Pieces that take the loops through their branches: a header (a comment
\* when inside a statement), an indented word, the terminator, a quoted
\* string, a dollar body and an unterminated identifier.
SpaceWord == <<" ", "x">>

LoopPieces == {HeaderA, SpaceWord, Semi, QuoteS, DollarT, OpenD}

LoopInit ==
    /\ RunInit
    /\ KeyFixed
    /\ script \in Scripts(LoopPieces, MaxPieces)
    /\ content = HeaderA \o Flatten(script)
    /\ parsed = NotParsed
    /\ loop = LoopEntry

OuterIter ==
    /\ loop.mode = "outer"
    /\ loop' = OuterIteration(content, loop)
    /\ UNCHANGED <<script, content, parsed>>
    /\ UNCHANGED <<pc, ctxDone, conn, stepIdx, stepInfo, err, tx>>
    /\ UNCHANGED serverVars
    /\ UNCHANGED histVars
    /\ UNCHANGED keyVars
    /\ UNCHANGED latchVars
    /\ UNCHANGED copyVars

SqlIter ==
    /\ loop.mode = "sql"
    /\ loop' = SqlIteration(content, loop)
    /\ UNCHANGED <<script, content, parsed>>
    /\ UNCHANGED <<pc, ctxDone, conn, stepIdx, stepInfo, err, tx>>
    /\ UNCHANGED serverVars
    /\ UNCHANGED histVars
    /\ UNCHANGED keyVars
    /\ UNCHANGED latchVars
    /\ UNCHANGED copyVars

LoopNext == OuterIter \/ SqlIter

LoopSpec == LoopInit /\ [][LoopNext]_vars

\* ------------------------------------------------------------------ error latch
\* The errors an operation of the Database can end with, and the handlers a
\* caller can register.
ErrKinds == {"nil", "dberr", "pgx.ErrNoRows", "errNoRows", "other"}
Handlers == {"nil", "h"}

IsDatabaseErrorAny(e) == e # "nil"

\* IsDatabaseError: errors.As(err, **Error); a *NoRowsError is not an *Error.
IsDatabaseError(e) == e = "dberr"

\* The body of processError between Lock and Unlock, for the error e0, the
\* latched error l and the registered handler h: the new value of
\* db.err.last, whether the handler is called and with what.
Latch(e0, l, h) ==
    LET e == processError(e0)
    IN  IF e # "nil" /\ IsDatabaseError(e) /\ e # "errNoRows"
        THEN IF l = "nil"
             THEN [last |-> e, call |-> h # "nil", arg |-> e]
             ELSE [last |-> l, call |-> FALSE, arg |-> e]
        ELSE IF l # "nil"
             THEN [last |-> "nil", call |-> h # "nil", arg |-> "nil"]
             ELSE [last |-> l, call |-> FALSE, arg |-> "nil"]

CanLockReentrant(m, g) == m = 0 \/ m = g

\* db.err.mutex.Lock() returns for goroutine g: a sync.Mutex is granted only
\* when nobody holds it, its holder included.
CanLock(m, g) == m = 0

\* g can call a method of the Database: from its own code, or from inside
\* the handler it is running.
CanEnter(g) ==
    \/ gpc[g] = "idle"
    \/ gpc[g] = "inHandler" /\ depth[g] < MaxDepth

Enter(g, method, arg) ==
    /\ gpc' = [gpc EXCEPT ![g] = method]
    /\ pending' = [pending EXCEPT ![g] = arg]
    /\ depth' = [depth EXCEPT ![g] = IF gpc[g] = "inHandler" THEN @ + 1 ELSE @]

\* The method g is inside returns: to the handler that called it, or to g's
\* own code.
Return(g) ==
    /\ gpc' = [gpc EXCEPT ![g] = IF depth[g] > 0 THEN "inHandler" ELSE "idle"]
    /\ depth' = [depth EXCEPT ![g] = IF @ > 0 THEN @ - 1 ELSE @]
    /\ UNCHANGED pending

NotLatch ==
    /\ UNCHANGED <<pc, ctxDone, conn, stepIdx, stepInfo, err, tx>>
    /\ UNCHANGED serverVars
    /\ UNCHANGED histVars
    /\ UNCHANGED keyVars
    /\ UNCHANGED tokVars
    /\ UNCHANGED copyVars

\* g calls Exec, QueryRow, Copy, WithinTx, ...: the operation uses db.pool.
StartOperation(g) ==
    /\ CanEnter(g)
    /\ poolOpen
    /\ Len(hcalls) < MaxCalls
    /\ Enter(g, "operation", "nil")
    /\ UNCHANGED <<errLast, errHandler, errMutex, poolOpen, hcalls, regClear>>
    /\ NotLatch

\* The operation is over with error e and g reaches
\* "return db.processError(err)".
FinishOperation(g, e) ==
    /\ gpc[g] = "operation"
    /\ gpc' = [gpc EXCEPT ![g] = "processError"]
    /\ pending' = [pending EXCEPT ![g] = e]
    /\ UNCHANGED <<errLast, errHandler, errMutex, poolOpen, depth, hcalls,
                   regClear>>
    /\ NotLatch

\* g calls db.SetEventHandler(h).
CallSetEventHandler(g, h) ==
    /\ CanEnter(g)
    /\ Enter(g, "SetEventHandler", h)
    /\ UNCHANGED <<errLast, errHandler, errMutex, poolOpen, hcalls, regClear>>
    /\ NotLatch

\* g calls db.Close(): the pool is closed and dropped, then
\* db.SetEventHandler(nil) is called.
CallClose(g) ==
    /\ CanEnter(g)
    /\ poolOpen' = FALSE
    /\ Enter(g, "SetEventHandler", "nil")
    /\ UNCHANGED <<errLast, errHandler, errMutex, hcalls, regClear>>
    /\ NotLatch

\* processError gets the mutex and runs up to the call of the handler; when
\* no call is due it runs to its end, the deferred Unlock included.
ProcessError(g) ==
    /\ gpc[g] = "processError"
    /\ CanLock(errMutex, g)
    /\ LET r == Latch(pending[g], errLast, errHandler)
       IN  /\ errLast' = r.last
           /\ IF r.call
              THEN /\ hcalls' = Append(hcalls, r.arg)
                   /\ errMutex' = g
                   /\ gpc' = [gpc EXCEPT ![g] = "inHandler"]
                   /\ UNCHANGED <<pending, depth>>
              ELSE /\ errMutex' = 0
                   /\ Return(g)
                   /\ UNCHANGED hcalls
    /\ UNCHANGED <<errHandler, poolOpen, regClear>>
    /\ NotLatch

\* SetEventHandler gets the mutex, stores the handler and unlocks; the calls
\* the handler has received are none yet.
SetEventHandler(g) ==
    /\ gpc[g] = "SetEventHandler"
    /\ CanLock(errMutex, g)
    /\ errHandler' = pending[g]
    /\ hcalls' = <<>>
    /\ regClear' = (errLast = "nil")
    /\ errMutex' = 0
    /\ Return(g)
    /\ UNCHANGED <<errLast, poolOpen>>
    /\ NotLatch

\* The handler returns to processError, which returns through its deferred
\* Unlock.
HandlerReturn(g) ==
    /\ gpc[g] = "inHandler"
    /\ errMutex' = 0
    /\ Return(g)
    /\ UNCHANGED <<errLast, errHandler, poolOpen, hcalls, regClear>>
    /\ NotLatch

LatchNext ==
    \E g \in Goroutines :
        \/ StartOperation(g)
        \/ \E e \in ErrKinds : FinishOperation(g, e)
        \/ \E h \in Handlers : CallSetEventHandler(g, h)
        \/ CallClose(g)
        \/ ProcessError(g)
        \/ SetEventHandler(g)
        \/ HandlerReturn(g)

LatchSpec == Init /\ [][LatchNext]_vars

\* ------------------------------------------------------------------ copy callback
\* What one invocation of the CopyCallback can return: a row, a nil row, an
\* error, or a row together with an error.
CbResults == {"row", "nilRow", "error", "rowAndError"}

\* The fields of the copyWithCallback.
CopyState == [counter |-> copyCounter, data |-> copyData, err |-> copyErr]

\* copyWithCallback.Next, the callback returning res if it is invoked: the
\* new fields, the value returned and whether the callback was invoked.  The
\* row the callback makes for index i is row i.
copyNext(c, res) ==
    IF c.err # "nil" \/ c.counter < 0
    THEN [c |-> c, ret |-> FALSE, invoked |-> FALSE]
    ELSE IF res \in {"error", "rowAndError"}
    THEN [c |-> [c EXCEPT !.err = "error", !.data = NoData],
          ret |-> FALSE, invoked |-> TRUE]
    ELSE IF res = "nilRow"
    THEN [c |-> [c EXCEPT !.data = NoData, !.counter = -1],
          ret |-> FALSE, invoked |-> TRUE]
    ELSE [c |-> [c EXCEPT !.data = c.counter, !.counter = c.counter + 1],
          ret |-> TRUE, invoked |-> TRUE]

copyValuesKeepsData(c) ==
    IF c.err # "nil" THEN [c |-> c, row |-> NoData, err |-> c.err]
    ELSE IF c.data = NoData
    THEN [c |-> c, row |-> NoData, err |-> "unexpected call"]
    ELSE [c |-> c, row |-> c.data, err |-> "nil"]

\* copyWithCallback.Values: the new fields, the row and the error returned.
copyValues(c) ==
    IF c.err # "nil" THEN [c |-> c, row |-> NoData, err |-> c.err]
    ELSE IF c.data = NoData
    THEN [c |-> c, row |-> NoData, err |-> "unexpected call"]
    ELSE [c |-> [c EXCEPT !.data = NoData], row |-> c.data, err |-> "nil"]

NotCopy ==
    /\ UNCHANGED <<pc, ctxDone, conn, stepIdx, stepInfo, err, tx>>
    /\ UNCHANGED serverVars
    /\ UNCHANGED histVars
    /\ UNCHANGED keyVars
    /\ UNCHANGED tokVars
    /\ UNCHANGED latchVars

SetCopyState(c) ==
    /\ copyCounter' = c.counter
    /\ copyData' = c.data
    /\ copyErr' = c.err

\* The driver calls Next.
CallNext(res) ==
    /\ Len(copyTrace) < MaxCopyCalls
    /\ LET r == copyNext(CopyState, res)
       IN  /\ SetCopyState(r.c)
           /\ copyTrace' = Append(copyTrace,
                  [op |-> "Next", ok |-> r.ret, row |-> NoData])
           /\ cbLog' = IF r.invoked
                       THEN Append(cbLog, [idx |-> copyCounter, res |-> res,
                                           at |-> Len(copyTrace) + 1])
                       ELSE cbLog
    /\ NotCopy

\* The driver calls Values.
CallValues ==
    /\ Len(copyTrace) < MaxCopyCalls
    /\ LET r == copyValues(CopyState)
       IN  /\ SetCopyState(r.c)
           /\ copyTrace' = Append(copyTrace,
                  [op |-> "Values", ok |-> r.err = "nil", row |-> r.row])
    /\ UNCHANGED cbLog
    /\ NotCopy

CopyNext == (\E res \in CbResults : CallNext(res)) \/ CallValues

CopySpec == Init /\ [][CopyNext]_vars

\* Call j of the trace is a Next that returned true.
NextOk(j) == copyTrace[j].op = "Next" /\ copyTrace[j].ok

\* Call j of the trace is a Values that returned a row.
ValuesOk(j) == copyTrace[j].op = "Values" /\ copyTrace[j].ok

\* The notifications go non-nil, nil, non-nil, ...
Alternates(s) == \A i \in 1..Len(s) : (s[i] # "nil") <=> (i % 2 = 1)

\* g is inside a method it called from the handler and waits for the mutex.
Reentered(g) == depth[g] > 0 /\ gpc[g] \in {"processError", "SetEventHandler"}

\* pg_advisory_lock returns with the lock granted.
LockGranted(r) == Lock(r) /\ held'[r] = 1

\* Scheduling: every goroutine inside RunMigrations keeps running (each of its
\* operations returns and the next one is issued), and the server grants the
\* advisory lock to a waiting session when the lock is free again and again.
\* Nothing obliges a caller to start a run, a context to be cancelled, an
\* operation to fail, or the pool to recycle an idle connection.
Fairness ==
    \A r \in Runs :
        /\ WF_vars(Acquire(r))
        /\ SF_vars(LockGranted(r))
        /\ WF_vars(CreateTable(r))
        /\ WF_vars(Resolve(r))
        /\ WF_vars(CallProvider(r))
        /\ WF_vars(BeginTx(r))
        /\ WF_vars(ExecSql(r))
        /\ WF_vars(ExecInsert(r))
        /\ WF_vars(Commit(r))
        /\ WF_vars(Rollback(r))
        /\ WF_vars(Exit(r))
        /\ WF_vars(ReleaseConn(r))

FairSpec == Init /\ [][Next]_vars /\ Fairness

TypeOK ==
    /\ pc \in [Runs -> {"idle", "acquire", "lock", "create", "resolve",
                        "provider", "begin", "execSql", "insert", "commit",
                        "rollback", "unlock", "release"}]
    /\ ctxDone \in [Runs -> BOOLEAN]
    /\ conn \in [Runs -> Conns \cup {NoConn}]
    /\ connOwner \in [Conns -> Runs \cup {0}]
    /\ lockCount \in [Conns -> 0..MaxLockCount]
    /\ held \in [Runs -> {0, 1}]
    /\ lastFailed \in 0..NumSteps

\* ------------------------------------------------------------------ claims
\* Positions between a successful pg_advisory_lock and the end of the
\* callback's body: ledger-table creation, resume query, provider calls and
\* step transactions.
RunningPcs ==
    {"create", "resolve", "provider", "begin", "execSql", "insert", "commit",
     "rollback"}

\* The callback has ended with err[r]; RunMigrations returns that value.
Returning(r) == pc[r] = "unlock"

\* C1: mutual exclusion.  At most one invocation is past a successful
\* pg_advisory_lock and before its release, every invocation in the Running
\* part of the protocol holds the lock on its own session, and no two
\* invocations are in the Running part at the same time.
C1_MutualExclusion ==
    /\ Cardinality({r \in Runs : held[r] = 1}) <= 1
    /\ \A r \in Runs :
         pc[r] \in RunningPcs => held[r] = 1 /\ lockCount[conn[r]] >= 1
    /\ \A r1, r2 \in Runs :
         r1 # r2 => ~(pc[r1] \in RunningPcs /\ pc[r2] \in RunningPcs)

\* A run executes a step while another one waits for the lock on its own
\* session.
C1_Witness ==
    \E r1, r2 \in Runs :
        /\ pc[r1] = "insert"
        /\ pc[r2] = "lock"
        /\ conn[r2] # conn[r1]
        /\ ~LockFree(conn[r2])

\* C2: exactly-once application.  The SQL of every step index is committed at
\* most once, and when a run ends with a nil error the SQL of every index
\* below the provider's end-of-steps index has been committed exactly once.
C2_ExactlyOnce ==
    /\ \A i \in 1..NumSteps : applied[i] <= 1
    /\ \A r \in Runs :
         (Returning(r) /\ err[r] = "nil") =>
             \A i \in 1..NumSteps : applied[i] = 1

\* A run that resumed after the first step (committed by an earlier run that
\* did not finish) ends successfully.
C2_Witness ==
    \E r \in Runs :
        /\ Returning(r)
        /\ err[r] = "nil"
        /\ commits[r] # {}
        /\ 1 \notin commits[r]

\* C3: on every exit path after the lock was acquired, the run's lock is
\* released by the time its connection is handed back to the pool: the
\* session's lock count drops by the run's own acquisition.
C3_LockReleasedOnEveryExit ==
    [][\A r \in Runs :
         (pc[r] = "unlock" /\ pc'[r] = "idle") =>
             lockCount'[conn[r]] = lockCount[conn[r]] - held[r]]_vars

\* C4: cancellation path.  When a run whose context is cancelled returns, the
\* step in progress has left no ledger row and no open transaction, and the
\* run's lock is released.
C4_CancelledRunReleasesLock ==
    [][\A r \in Runs :
         (pc[r] = "unlock" /\ ctxDone[r] /\ pc'[r] = "idle") =>
             /\ ~tx[r].open
             /\ (err[r] # "nil" => stepIdx[r] \notin Ids(ledger'))
             /\ lockCount'[conn[r]] = lockCount[conn[r]] - held[r]]_vars

\* C5: per-step atomicity.  The effects of step i are persisted exactly when
\* the ledger row with id i exists, and after a failed SQL execution, ledger
\* insert or commit neither of the two persists.
C5_StepAtomicity ==
    /\ \A i \in 1..NumSteps : (applied[i] >= 1) <=> (i \in Ids(ledger))
    /\ \A r \in Runs :
         (pc[r] \in {"rollback", "unlock"}
            /\ err[r] \in {"sqlErr", "insertErr", "commitErr"}) =>
             /\ stepIdx[r] \notin Ids(ledger)
             /\ applied[stepIdx[r]] = 0

\* The commit of a step failed after an earlier step had been committed.
C5_Witness ==
    \E r \in Runs :
        /\ pc[r] = "rollback"
        /\ err[r] = "commitErr"
        /\ tx[r].sql /\ tx[r].row
        /\ ledger # {}

\* C6: ledger contiguity.  The ids in the ledger are exactly 1..n, one row
\* per id.
C6_LedgerContiguous ==
    /\ Ids(ledger) = 1..Cardinality(ledger)
    /\ Cardinality(Ids(ledger)) = Cardinality(ledger)

\* The ledger is complete, its last rows written by a run that resumed after
\* an earlier run's rows.
C6_Witness ==
    /\ Ids(ledger) = 1..NumSteps
    /\ \E r \in Runs : commits[r] # {} /\ 1 \notin commits[r]

\* The step of r's last provider call failed inside WithinTx.
StepFailed(r) ==
    /\ pc[r] \in {"rollback", "unlock"}
    /\ err[r] \in {"ctxErr", "beginErr", "sqlErr", "insertErr", "commitErr"}
    /\ Len(calls[r]) >= 1
    /\ calls[r][Len(calls[r])] = stepIdx[r]

\* C7: a failed run leaves the ledger as it was immediately before the
\* failing step (the rows of its earlier steps stay, the failing step has no
\* row), and the first provider call of the next run uses the index of the
\* step that failed.
C7_FailedRunLeavesLedger ==
    /\ \A r \in Runs :
         (StepFailed(r) /\ (pc[r] = "rollback" \/ held[r] = 1)) =>
             /\ ledger = snap[r]
             /\ commits[r] \subseteq Ids(ledger)
             /\ stepIdx[r] \notin Ids(ledger)
    /\ \A q \in Runs :
         (lastFailed # 0 /\ pc[q] = "begin" /\ Len(calls[q]) = 1) =>
             calls[q][1] = lastFailed

\* A run makes its first provider call with the index at which the step of
\* an earlier run failed, after that earlier run had committed a step.
C7_Witness ==
    \E q \in Runs :
        /\ pc[q] = "begin"
        /\ Len(calls[q]) = 1
        /\ calls[q][1] = lastFailed
        /\ ledger # {}

\* C8 as stated: after a failed SQL execution the ledger's max id equals the
\* max id the ledger had before the run started.
C8_MaxIdAsBeforeRun ==
    \A r \in Runs :
        (Returning(r) /\ err[r] = "sqlErr" /\ held[r] = 1) =>
            MaxId(ledger) = resolved[r]

\* C8 amended: after a failed SQL execution the run returns a non-nil error
\* (the SQL error) and the ledger's max id equals the max id immediately
\* before the failing step: the max id before the run plus the number of
\* steps this run had committed, which is the failing index minus one.
C8_MaxIdAsBeforeFailingStep ==
    \A r \in Runs :
        /\ (pc[r] \in {"rollback", "unlock"} /\ err[r] = "sqlErr"
              /\ (pc[r] = "rollback" \/ held[r] = 1)) =>
               /\ MaxId(ledger) = MaxId(snap[r])
               /\ MaxId(ledger) = resolved[r] + Cardinality(commits[r])
               /\ MaxId(ledger) = stepIdx[r] - 1
        /\ (Returning(r) /\ stepIdx[r] >= 1 /\ lastFailed = stepIdx[r]) =>
               err[r] # "nil"

\* The SQL of a run's second step failed after its first step was committed.
C8_Witness ==
    \E r \in Runs :
        /\ Returning(r)
        /\ err[r] = "sqlErr"
        /\ held[r] = 1
        /\ Cardinality(commits[r]) = 1

\* C9: resumption idempotence.  A run never calls the provider with an index
\* at or below the max id it found; a run that finds the ledger complete
\* calls the provider once, with the index after the last step, starts no
\* transaction, writes no row and returns nil unless the provider itself
\* returned an error.
C9_ResumptionIdempotence ==
    \A r \in Runs :
        /\ \A k \in 1..Len(calls[r]) : calls[r][k] > resolved[r]
        /\ resolved[r] = NumSteps =>
              /\ calls[r] \in {<<>>, <<NumSteps + 1>>}
              /\ commits[r] = {}
              /\ ~tx[r].open
              /\ Ids(ledger) = 1..NumSteps
              /\ (Returning(r) /\ calls[r] # <<>>) => err[r] \in {"nil", "cbErr"}

\* A run on the complete ledger has asked for the next index and ends with a
\* nil error.
C9_Witness ==
    \E r \in Runs :
        /\ Returning(r)
        /\ resolved[r] = NumSteps
        /\ calls[r] = <<NumSteps + 1>>
        /\ err[r] = "nil"

\* C10: resume-index resolution.  The first index passed to the provider is 1
\* on an empty ledger and max(id)+1 otherwise; the empty result of the max-id
\* query never becomes the run's error, and a failed query ends the run
\* before any provider call.
C10_ResumeIndex ==
    \A r \in Runs :
        /\ Len(calls[r]) >= 1 =>
              calls[r][1] = (IF resolved[r] = 0 THEN 1 ELSE resolved[r] + 1)
        /\ (pc[r] = "provider" /\ calls[r] = <<>>) =>
              stepIdx[r] = (IF ledger = {} THEN 1 ELSE MaxId(ledger) + 1)
        /\ err[r] # "errNoRows"
        /\ err[r] = "queryErr" => calls[r] = <<>> /\ resolved[r] = -1

\* A run on a non-empty ledger has made its first provider call.
C10_Witness ==
    \E r \in Runs :
        /\ pc[r] = "begin"
        /\ resolved[r] >= 1
        /\ calls[r] = <<resolved[r] + 1>>

C12_SecondSeesFirstsRows ==
    \A r \in Runs :
        (Len(calls[r]) >= 1 /\ held[r] = 1) =>
            /\ Ids(ledger) \ commits[r] = 1..resolved[r]
            /\ calls[r][1] = resolved[r] + 1
            /\ \A q \in Runs \ {r} :
                 \A i \in commits[q] : i <= resolved[r] /\ calls[r][1] > i

\* The first run committed step 1 and lost its session during step 2; the
\* second run, which had waited for the lock, asks the provider for index 2.
C12_Witness ==
    \E r, q \in Runs :
        /\ r # q
        /\ commits[q] = {1}
        /\ pc[q] = "unlock"
        /\ held[r] = 1
        /\ calls[r] = <<2>>

\* The positions inside the transaction of one step (Conn.WithinTx).
TxPcs == {"begin", "execSql", "insert", "commit"}

\* C13: within one run the provider is called with consecutive indices
\* starting at the resume index, the step in progress is the one of the last
\* provider call, and the provider call for the next index is made only
\* after the transaction of every earlier index of the run has committed.
C13_StepsInOrder ==
    \A r \in Runs :
        /\ \A k \in 1..Len(calls[r]) : calls[r][k] = resolved[r] + k
        /\ \A k \in 1..(Len(calls[r]) - 1) :
              calls[r][k] \in commits[r] /\ calls[r][k] \in Ids(ledger)
        /\ pc[r] \in TxPcs =>
              /\ Len(calls[r]) >= 1
              /\ stepIdx[r] = calls[r][Len(calls[r])]
              /\ stepIdx[r] \notin commits[r]
        /\ tx[r].open => pc[r] \in (TxPcs \cup {"rollback"})

\* The transaction of a run's second step is open after its first step was
\* committed.
C13_Witness ==
    \E r \in Runs :
        /\ Len(calls[r]) = 2
        /\ tx[r].open
        /\ calls[r][1] \in commits[r]

\* C14: when the provider returns a step with an empty name the run is
\* complete: RunMigrations returns nil only in that case, no transaction is
\* open, the index has no ledger row, and the lock is released when the run
\* hands its connection back.
C14_EmptyNameCompletesRun ==
    [][\A r \in Runs :
         (pc[r] = "unlock" /\ err[r] = "nil" /\ pc'[r] = "idle") =>
             /\ stepInfo[r].Name = ""
             /\ ~tx[r].open
             /\ calls[r][Len(calls[r])] \notin Ids(ledger')
             /\ lockCount'[conn[r]] = lockCount[conn[r]] - held[r]]_vars

\* C15: if the provider returns an error for index i, the run ends with that
\* error at once: the provider is not called again, no transaction is
\* started, index i has no ledger row, the ledger's max id is i - 1, and the
\* resume index computed from the ledger left behind is i again.
C15_ProviderError ==
    \A r \in Runs :
        err[r] = "cbErr" =>
            /\ Returning(r)
            /\ ~tx[r].open
            /\ calls[r][Len(calls[r])] = stepIdx[r]
            /\ stepIdx[r] \notin Ids(ledger)
            /\ MaxId(ledger) = stepIdx[r] - 1
            /\ NextStepIdx(MaxId(ledger),
                           IF ledger = {} THEN "errNoRows" ELSE "nil")
                   = stepIdx[r]

\* The provider failed for index 2 after this run had committed step 1.
C15_Witness ==
    \E r \in Runs :
        /\ Returning(r)
        /\ err[r] = "cbErr"
        /\ stepIdx[r] = 2
        /\ commits[r] = {1}

\* C16: if pg_advisory_lock fails, the run returns that error as its next
\* step, having made no ledger operation (no table creation, no resume
\* query, no provider call, no insert); and every ledger operation or
\* provider call of a run is issued while the run's session holds the lock:
\* the table, the ledger and the steps' effects change only by such a step.
C16_NoLedgerOpWithoutLock ==
    [][/\ \A r \in Runs :
            (pc[r] = "release" /\ pc'[r] # pc[r]) =>
                /\ pc'[r] = "idle"
                /\ err[r] \in {"lockErr", "ctxErr"}
                /\ held[r] = 0
                /\ calls[r] = <<>> /\ resolved[r] = -1 /\ commits[r] = {}
                /\ UNCHANGED <<tableExists, ledger, applied>>
       /\ \A r \in Runs :
            (pc[r] \in RunningPcs /\ pc'[r] # pc[r]) =>
                held[r] = 1 /\ lockCount[conn[r]] >= 1
       /\ (tableExists' # tableExists \/ ledger' # ledger \/ applied' # applied) =>
            \E r \in Runs :
                /\ pc[r] \in RunningPcs /\ pc'[r] # pc[r]
                /\ held[r] = 1 /\ lockCount[conn[r]] >= 1]_vars

\* pg_advisory_lock of a run failed while another run, holding the lock, had
\* committed a step.
C16_Witness ==
    \E r, q \in Runs :
        /\ pc[r] = "release"
        /\ err[r] = "lockErr"
        /\ held[q] = 1
        /\ commits[q] # {}

\* C17: a failure to release the lock is fatal: when the pg_advisory_unlock
\* statement of a run fails, RunMigrations returns a non-nil error.
C17_UnlockFailureReturned ==
    [][\A r \in Runs :
         (pc[r] = "unlock" /\ pc'[r] = "idle"
            /\ UnlockError(ctxDone[r]) # "nil") =>
             ReturnValue(r) # "nil"]_vars

\* The positions at which the run has a connection borrowed from the pool.
ConnPcs ==
    {"lock", "create", "resolve", "provider", "begin", "execSql", "insert",
     "commit", "rollback", "unlock", "release"}

\* C18: single session.  From pool.Acquire to conn.Release a run owns one
\* pooled connection, the same one throughout, and no other run uses it; the
\* lock state of a session changes only by an operation of the run that
\* borrowed it (or when the pool closes the idle connection), and a run has
\* an open transaction only on its borrowed connection.
C18_SingleSession ==
    [][/\ \A r \in Runs :
            pc[r] \in ConnPcs =>
                /\ conn[r] \in Conns
                /\ connOwner[conn[r]] = r
                /\ pc'[r] \in ConnPcs =>
                      conn'[r] = conn[r] /\ connOwner'[conn[r]] = r
       /\ \A r \in Runs :
            pc[r] \notin ConnPcs => conn[r] = NoConn /\ ~tx[r].open
       /\ \A c \in Conns :
            lockCount'[c] # lockCount[c] =>
                \/ connOwner[c] = 0 /\ lockCount'[c] = 0
                \/ \E r \in Runs :
                      /\ conn[r] = c /\ connOwner[c] = r
                      /\ pc[r] \in {"lock", "unlock"} \cup InFlightPcs
                      /\ pc'[r] # pc[r]]_vars

\* A run is inside the transaction of its second step while another
\* connection idles in the pool.
C18_Witness ==
    \E r \in Runs :
        /\ pc[r] = "insert"
        /\ Len(calls[r]) = 2
        /\ \E c \in Conns : c # conn[r] /\ connOwner[c] = 0

\* The order of the positions inside one invocation of RunMigrations.
PcRank(p) ==
    CASE p = "idle" -> 0
      [] p = "acquire" -> 1
      [] p = "lock" -> 2
      [] p = "create" -> 3
      [] p = "resolve" -> 4
      [] p = "provider" -> 5
      [] p = "begin" -> 6
      [] p = "execSql" -> 7
      [] p = "insert" -> 8
      [] p = "commit" -> 9
      [] p = "rollback" -> 10
      [] p = "unlock" -> 11
      [] p = "release" -> 12

\* C19: no automatic retries.  An invocation only moves forward: the only
\* way back is the loop from a committed step to the provider call of the
\* next index, and no provider index is asked for twice.  Once an operation
\* has failed the invocation only rolls the transaction back, releases the
\* lock and returns, and what it returns is that first error.
C19_NoRetries ==
    [][\A r \in Runs :
         /\ pc'[r] # pc[r] =>
               \/ PcRank(pc'[r]) > PcRank(pc[r])
               \/ pc'[r] = "idle"
               \/ /\ pc[r] = "commit" /\ pc'[r] = "provider"
                  /\ err'[r] = "nil"
                  /\ stepIdx[r] \in Ids(ledger')
                  /\ stepIdx'[r] = stepIdx[r] + 1
         /\ Len(calls'[r]) > Len(calls[r]) =>
               \A k \in 1..Len(calls[r]) :
                   calls[r][k] # calls'[r][Len(calls'[r])]
         /\ err[r] # "nil" =>
               /\ pc[r] \in {"rollback", "unlock", "release"}
               /\ pc'[r] \in {pc[r], "unlock", "idle"}
               /\ pc'[r] # "idle" => err'[r] = err[r]
               /\ ReturnValue(r) = err[r]]_vars

\* The commit of a run's second step failed; the run has rolled back and is
\* about to release the lock and return the error.
C19_Witness ==
    \E r \in Runs :
        /\ pc[r] = "unlock"
        /\ err[r] = "commitErr"
        /\ Len(calls[r]) = 2

\* C20: the lock id is a deterministic function of the database-name hash
\* and the table name: the 8 bytes of the 64-bit FNV-1a hash of the two with
\* the top bit cleared, so that as a signed 64-bit integer it is never
\* negative; Database objects created for the same name compute the same id
\* for the same table.
C20_LockKey ==
    /\ \A d \in Dbs :
         lockId[d] # NoKey =>
             LET raw == Fnv64aWrite(Fnv64Offset, Sha256(dbName[d]) \o tableName)
             IN  /\ Len(lockId[d]) = Len(Fnv64Offset)
                 /\ \A k \in 1..Len(lockId[d]) : lockId[d][k] \in 0..255
                 /\ lockId[d][Len(lockId[d])] < 128
                 /\ \A k \in 1..(Len(raw) - 1) : lockId[d][k] = raw[k]
                 /\ lockId[d][Len(raw)] = raw[Len(raw)] % 128
    /\ \A d, e \in Dbs :
         (lockId[d] # NoKey /\ lockId[e] # NoKey /\ dbName[d] = dbName[e]) =>
             lockId[d] = lockId[e]
    /\ Fnv64aWrite(Fnv64Offset, <<97>>) = <<140, 236, 1, 134, 76, 220, 99, 175>>

\* Two Database objects of the same name have computed the lock id of a
\* table whose 64-bit hash has the top bit set.
C20_Witness ==
    \E d, e \in Dbs :
        /\ d # e
        /\ dbName[d] = dbName[e]
        /\ lockId[d] # NoKey /\ lockId[e] # NoKey
        /\ getMigrationLockIdUnmasked(nameHash[d], tableName)[8] >= 128

\* C21: a run that starts on an empty ledger and ends with a nil error leaves
\* exactly one row per step of the provider, ids 1..N, and every ledger row
\* records the name and the sequence number the provider returns for its id.
C21_SuccessfulRunLedger ==
    /\ \A row \in ledger :
         /\ row.name = Provider(row.id).Name
         /\ row.sequence = Provider(row.id).SequenceNo
    /\ \A r \in Runs :
         (Returning(r) /\ err[r] = "nil" /\ resolved[r] = 0) =>
             /\ ledger = {[id |-> i, name |-> Provider(i).Name,
                           sequence |-> Provider(i).SequenceNo] :
                              i \in 1..NumSteps}
             /\ commits[r] = 1..NumSteps
             /\ Cardinality(ledger) = NumSteps

\* A run that found the ledger empty has committed every step and ends with
\* a nil error.
C21_Witness ==
    \E r \in Runs :
        /\ Returning(r)
        /\ err[r] = "nil"
        /\ resolved[r] = 0
        /\ Len(calls[r]) = NumSteps + 1

\* The name a header piece gives its block and the statement a statement
\* piece holds, as the format description reads them.
PieceName(p) ==
    CASE p = HeaderA -> <<"a">>
      [] p = HeaderB -> <<"b">>
      [] p = IndentedHash -> <<"c">>

PieceSql(p) ==
    CASE p = StmtX -> <<"x", ";">>
      [] p = StmtY -> <<"y", ";">>

\* The steps of a script of block pieces read piece by piece: a header in
\* the set hdrs names the block and restarts the numbering, a statement is
\* one step of the current block.
RECURSIVE StepsOfPieces(_, _, _, _)
StepsOfPieces(sc, hdrs, name, seqNo) ==
    IF Len(sc) = 0 THEN <<>>
    ELSE IF Head(sc) \in hdrs
         THEN StepsOfPieces(Tail(sc), hdrs, PieceName(Head(sc)), 1)
    ELSE IF Head(sc) \in {StmtX, StmtY}
         THEN <<[Name |-> name, SequenceNo |-> seqNo,
                 Sql |-> PieceSql(Head(sc))]>>
              \o StepsOfPieces(Tail(sc), hdrs, name, seqNo + 1)
    ELSE StepsOfPieces(Tail(sc), hdrs, name, seqNo)

\* The script has been parsed without error.
ParsedOk == parsed # NotParsed /\ parsed.err = "nil"

\* C22: tokenizer output shape.  For a script with M terminated statements
\* the tokenizer returns M steps in file order, each with the name of the
\* most recent block header before it, numbered from 1 after each header and
\* by 1 per statement of the block.
C22_OutputShape ==
    ParsedOk =>
        LET exp == StepsOfPieces(script, {HeaderA, HeaderB}, <<>>, 1) IN
        /\ ~parsed.isNil
        /\ Len(parsed.steps) = Len(SelectSeq(script, LAMBDA p : p \in {StmtX, StmtY}))
        /\ Len(parsed.steps) = Len(exp)
        /\ \A k \in 1..Len(exp) :
             /\ parsed.steps[k].Sql = exp[k].Sql
             /\ parsed.steps[k].Name = exp[k].Name
             /\ parsed.steps[k].SequenceNo = exp[k].SequenceNo

\* A script with two blocks, the second with two statements, was parsed.
C22_Witness ==
    /\ ParsedOk
    /\ Len(parsed.steps) = 3
    /\ parsed.steps[1].Name # parsed.steps[2].Name
    /\ parsed.steps[3].SequenceNo = 2

\* The positions of the statement pieces of a script and the position of
\* the latest piece of hdrs before position i (0 when there is none).
StmtPositions(sc) == {i \in 1..Len(sc) : sc[i] \in {StmtX, StmtY}}

LastHeaderBefore(sc, hdrs, i) ==
    LET hs == {h \in 1..(i - 1) : sc[h] \in hdrs} IN
    IF hs = {} THEN 0 ELSE CHOOSE h \in hs : \A g \in hs : g <= h

\* The step a statement piece at position i became: statements are emitted
\* in file order, one per statement piece.
StepAt(sc, i) == parsed.steps[Cardinality({j \in StmtPositions(sc) : j <= i})]

\* The block a statement at position i belongs to when the pieces of hdrs
\* are the ones that start a block: named by the latest such piece, and
\* numbered by the statements since it.
InBlockOf(sc, hdrs, i) ==
    LET h == LastHeaderBefore(sc, hdrs, i) IN
    /\ h > 0
    /\ StepAt(sc, i).Name = PieceName(sc[h])
    /\ StepAt(sc, i).SequenceNo =
           Cardinality({j \in StmtPositions(sc) : h < j /\ j <= i})

\* C23 as stated: every line whose first non-blank character is '#' outside
\* a statement starts a new block, also when spaces or tabs precede the
\* '#'.
C23_IndentedHashStartsBlock ==
    ParsedOk =>
        \A i \in StmtPositions(script) :
            InBlockOf(script, {HeaderA, HeaderB, IndentedHash}, i)

\* C23 (amended): a '#' met outside an in-progress statement with no space
\* or tab before it starts a new named block (sets the name, resets the
\* counter to 1); a line where spaces or tabs precede the '#' is skipped as
\* a comment and changes neither the block name nor the counter.
C23_HeaderRecognition ==
    ParsedOk =>
        /\ Len(parsed.steps) = Cardinality(StmtPositions(script))
        /\ \A i \in StmtPositions(script) :
               InBlockOf(script, {HeaderA, HeaderB}, i)

\* A statement after an indented '#' line continued the block of the
\* header before that line, and a later header started a new block.
C23_Witness ==
    /\ ParsedOk
    /\ Len(script) = 5
    /\ script[1] = HeaderA /\ script[2] = StmtX /\ script[3] = IndentedHash
    /\ script[4] = StmtY /\ script[5] = HeaderB
    /\ parsed.steps[2] = [Name |-> <<"a">>, SequenceNo |-> 2,
                          Sql |-> <<"y", ";">>]

\* The pieces that separate tokens, and a script cut at its terminators
\* into the piece lists of its statements.
Blanks == {Space, Tab, Newline, Comment}

RECURSIVE Groups(_, _)
Groups(sc, cur) ==
    IF Len(sc) = 0 THEN <<cur>>
    ELSE IF Head(sc) = Semi THEN <<cur>> \o Groups(Tail(sc), <<>>)
    ELSE Groups(Tail(sc), Append(cur, Head(sc)))

\* The tokens of a statement's pieces joined by one space wherever blanks
\* separate two of them.
RECURSIVE Joined(_, _, _)
Joined(g, started, blank) ==
    IF Len(g) = 0 THEN <<>>
    ELSE IF Head(g) \in Blanks THEN Joined(Tail(g), started, started)
    ELSE (IF blank THEN <<" ">> ELSE <<>>) \o Head(g)
         \o Joined(Tail(g), TRUE, FALSE)

\* The statements a script of pieces holds, each with the terminator.
ExpectedSqls(sc) ==
    LET all == [k \in 1..Len(Groups(sc, <<>>)) |->
                   Joined(Groups(sc, <<>>)[k], FALSE, FALSE)]
        full == SelectSeq(all, LAMBDA q : Len(q) > 0)
    IN  [k \in 1..Len(full) |-> full[k] \o <<";">>]

\* A statement without the space it may begin with.
DropLeadingSpace(sql) ==
    IF Len(sql) > 0 /\ sql[1] = " " THEN Tail(sql) ELSE sql

\* The statements returned are the expected ones, in order.
SqlsAsExpected ==
    LET exp == ExpectedSqls(script) IN
    /\ ~parsed.isNil
    /\ Len(parsed.steps) = Len(exp)
    /\ \A k \in 1..Len(exp) : DropLeadingSpace(parsed.steps[k].Sql) = exp[k]

\* C24: quoted spans.  A single-quoted string (a doubled quote continues
\* it) and a double-quoted identifier (a backslash escapes the next
\* character) are copied verbatim into the statement: the ';', '#' and
\* whitespace inside them neither end the statement, nor start a comment,
\* nor get collapsed.
C24_QuotedSpansVerbatim ==
    /\ (parsed # NotParsed) => parsed.err = "nil"
    /\ ParsedOk => SqlsAsExpected

\* One statement with a word, a single-quoted and a double-quoted span
\* was emitted whole.
C24_Witness ==
    /\ ParsedOk
    /\ script = <<Word, Space, QuoteS, Space, QuoteD>>
    /\ Len(parsed.steps) = 1
    /\ parsed.steps[1].Sql = Word \o <<" ">> \o QuoteS \o <<" ">> \o QuoteD \o <<";">>

\* C25: dollar-tagged blocks.  A span opened by a tag $...$ runs until the
\* next occurrence of the identical tag; everything in between (';', '#',
\* quotes, newlines, other dollar tags) is copied verbatim with both tags
\* and does not end the statement.
C25_DollarSpansVerbatim ==
    (parsed # NotParsed) =>
        /\ parsed.err = "nil"
        /\ SqlsAsExpected

\* A statement with both dollar-quoted bodies, the one with the tag $t$
\* holding the empty tag, was emitted whole, and the statement after it too.
C25_Witness ==
    /\ ParsedOk
    /\ script = <<DollarT, Space, DollarEmpty, Semi, Word>>
    /\ Len(parsed.steps) = 2
    /\ parsed.steps[1].Sql = DollarT \o <<" ">> \o DollarEmpty \o <<";">>
    /\ parsed.steps[2].Sql = <<"x", ";">>

\* C26: whitespace collapsing.  In every emitted statement each run of
\* spaces, tabs, newlines and discarded comments appears as exactly one
\* space between the tokens it separates; the statement never begins with
\* a space and has no space before the appended ';'.
C26_WhitespaceCollapsed ==
    (parsed # NotParsed) =>
        /\ parsed.err = "nil"
        /\ Len(parsed.steps) = Len(ExpectedSqls(script))
        /\ \A k \in 1..Len(parsed.steps) :
               /\ parsed.steps[k].Sql = ExpectedSqls(script)[k]
               /\ parsed.steps[k].Sql[1] # " "

\* C27: parse errors return no partial result.  Whenever the tokenizer
\* reports an error the returned step list is nil, also when earlier
\* statements of the script were complete and valid.
C27_ErrorReturnsNil ==
    (parsed # NotParsed /\ parsed.err # "nil") =>
        parsed.isNil /\ Len(parsed.steps) = 0

\* A script with a complete statement in a block and then an unterminated
\* string was rejected.
C27_Witness ==
    /\ script = <<HeaderA, StmtX, StmtX, OpenS>>
    /\ parsed.err = "invalid SQL content (open string)"
    /\ parsed.isNil

\* The position of the first piece of a script that is not a blank line
\* (0 when there is none).
FirstNonBlank(sc) ==
    LET ps == {i \in 1..Len(sc) : sc[i] # BlankLine} IN
    IF ps = {} THEN 0 ELSE CHOOSE i \in ps : \A j \in ps : i <= j

\* C28: statement text before the first block header fails with "SQL
\* sentence found outside a block"; blank lines before the first header do
\* not.
C28_StatementOutsideBlock ==
    (parsed # NotParsed) =>
        LET f == FirstNonBlank(script) IN
        /\ (f > 0 /\ script[f] \in StatementText) =>
               parsed.err = "SQL sentence found outside a block"
        /\ (f > 0 /\ script[f] \notin StatementText) =>
               parsed.err # "SQL sentence found outside a block"
        /\ f = 0 => parsed.err = "nil" /\ Len(parsed.steps) = 0

\* A statement before the first header was rejected.
C28_Witness ==
    /\ script = <<BlankLine, StmtX, HeaderA, StmtX>>
    /\ parsed.err = "SQL sentence found outside a block"

\* The header pieces that the scan reaches outside a statement: every piece
\* before is a header, a terminated statement or a blank line, and no
\* statement comes before the first header.
ReachedAsHeader(sc, i) ==
    /\ \A j \in 1..(i - 1) : sc[j] \in {HeaderA, StmtX, BlankLine}
    /\ \A j \in 1..(i - 1) :
           sc[j] = StmtX => \E h \in 1..(j - 1) : sc[h] = HeaderA

\* C29: a block header that is empty after trimming spaces, tabs, dashes,
\* equals signs and '#' fails with "empty start of block comment", wherever
\* in the script the header occurs.
C29_EmptyHeaderFails ==
    (parsed # NotParsed) =>
        \A i \in 1..Len(script) :
            (script[i] = EmptyHeader /\ ReachedAsHeader(script, i)) =>
                parsed.err = "empty start of block comment"

\* An empty header after a complete block was rejected.
C29_Witness ==
    /\ script = <<HeaderA, StmtX, BlankLine, EmptyHeader, StmtX>>
    /\ parsed.err = "empty start of block comment"
    /\ parsed.isNil

\* The pieces after the last terminator of a script.
PendingAtEnd(sc) == Groups(sc, <<>>)[Len(Groups(sc, <<>>))]

\* C30: a non-empty statement pending at the end of the input (no trailing
\* ';') is emitted as the final step, and every emitted Sql, ended by ';'
\* or by the end of the input, ends with exactly one appended ';'.
C30_PendingStatementEmitted ==
    (parsed # NotParsed) =>
        LET last == PendingAtEnd(script)
            n == Len(parsed.steps)
        IN  /\ parsed.err = "nil"
            /\ (\E i \in 1..Len(last) : last[i] = Word) =>
                   /\ n > 0
                   /\ DropLeadingSpace(parsed.steps[n].Sql)
                          = Joined(last, FALSE, FALSE) \o <<";">>
            /\ n = Cardinality({g \in 1..Len(Groups(script, <<>>)) :
                       \E i \in 1..Len(Groups(script, <<>>)[g]) :
                           Groups(script, <<>>)[g][i] = Word})
            /\ \A k \in 1..n :
                   LET sql == parsed.steps[k].Sql IN
                   /\ Len(sql) >= 2
                   /\ sql[Len(sql)] = ";"
                   /\ \A j \in 1..(Len(sql) - 1) : sql[j] # ";"

\* A script that ends inside its second statement gave two steps.
C30_Witness ==
    /\ ParsedOk
    /\ script = <<Word, Semi, Word, Newline, Word>>
    /\ Len(parsed.steps) = 2
    /\ parsed.steps[2].Sql = <<"x", " ", "x", ";">>

\* The block name and sequence number of each statement of a script of
\* statement pieces that follows the header "a": a comment line met outside
\* a statement names a new block unless a space or tab stands before its
\* '#'; a comment line inside a statement changes nothing.
RECURSIVE BlocksOfPieces(_, _, _, _, _)
BlocksOfPieces(sc, inStmt, afterBlank, name, seqNo) ==
    IF Len(sc) = 0
    THEN IF inStmt THEN <<[Name |-> name, SequenceNo |-> seqNo]>> ELSE <<>>
    ELSE LET p == Head(sc) IN
         IF p = Word
         THEN BlocksOfPieces(Tail(sc), TRUE, FALSE, name, seqNo)
         ELSE IF p = Semi
         THEN IF inStmt
              THEN <<[Name |-> name, SequenceNo |-> seqNo]>>
                   \o BlocksOfPieces(Tail(sc), FALSE, FALSE, name, seqNo + 1)
              ELSE BlocksOfPieces(Tail(sc), FALSE, FALSE, name, seqNo)
         ELSE IF p = Comment /\ ~inStmt /\ ~afterBlank
         THEN BlocksOfPieces(Tail(sc), FALSE, FALSE, <<"c">>, 1)
         ELSE BlocksOfPieces(Tail(sc), inStmt, p \in {Space, Tab}, name, seqNo)

\* C31: inside an in-progress statement a '#' outside quoting starts an
\* inline comment: its text up to the end of the line is absent from the
\* statement and replaced by at most one space, and it changes neither the
\* block name nor the sequence counter, also at the start of a line.
C31_InlineComment ==
    (parsed # NotParsed) =>
        LET exp == BlocksOfPieces(script, FALSE, FALSE, <<"a">>, 1) IN
        /\ parsed.err = "nil"
        /\ SqlsAsExpected
        /\ Len(parsed.steps) = Len(exp)
        /\ \A k \in 1..Len(exp) :
               /\ parsed.steps[k].Name = exp[k].Name
               /\ parsed.steps[k].SequenceNo = exp[k].SequenceNo
               /\ \A j \in 1..Len(parsed.steps[k].Sql) :
                      parsed.steps[k].Sql[j] \notin {"#", "c", "\n"}

\* A statement with a comment line in the middle, at the start of a line,
\* stayed one statement of block "a".
C31_Witness ==
    /\ ParsedOk
    /\ script = <<Word, Newline, Comment, Word, Semi>>
    /\ parsed.steps = <<[Name |-> <<"a">>, SequenceNo |-> 1,
                         Sql |-> <<"x", " ", "x", ";">>]>>

\* The whole characters of a header text, taken from the front, that fit
\* in room bytes.
RECURSIVE TakeChars(_, _)
TakeChars(chars, room) ==
    IF Len(chars) = 0 \/ Len(Head(chars)) > room THEN <<>>
    ELSE Head(chars) \o TakeChars(Tail(chars), room - Len(Head(chars)))

\* The longest prefix of a header text (a run of 'a', then characters) of
\* at most max bytes that ends on a character boundary.
LongestPrefix(sc, max) ==
    IF Len(Head(sc)) >= max THEN SubSeq(Head(sc), 1, max)
    ELSE Head(sc) \o TakeChars(Tail(sc), max - Len(Head(sc)))

\* C32: every block name is non-empty and at most 255 bytes long; a header
\* text longer than 255 bytes gives the longest prefix of at most 255 bytes
\* that ends on a character boundary.
C32_NameTruncation ==
    (parsed # NotParsed) =>
        /\ parsed.err = "nil"
        /\ Len(parsed.steps) = 1
        /\ Len(parsed.steps[1].Name) \in 1..MaxNameBytes
        /\ parsed.steps[1].Name = LongestPrefix(script, MaxNameBytes)

\* C33: a step the provider returns with no name or with no SQL sentence
\* ends the migration: it is neither executed nor recorded in the ledger.
C33_NoNameOrNoSqlEndsRun ==
    /\ \A r \in Runs :
           pc[r] \in TxPcs =>
               stepInfo[r].Name # "" /\ stepInfo[r].Sql # ""
    /\ \A row \in ledger :
           Provider(row.id).Name # "" /\ Provider(row.id).Sql # ""

\* C34: the advisory lock is re-entrant within a session, yet no session
\* ever holds the migration lock more than once: a connection idle in the
\* pool holds it 0 times, so no run acquires it on a connection that still
\* holds it from an earlier run.
C34_LockHeldAtMostOnce ==
    \A c \in Conns :
        /\ lockCount[c] <= 1
        /\ connOwner[c] = 0 => lockCount[c] = 0

\* C35: Conn.WithinTx commits exactly when the callback returned no error;
\* when the callback or the commit fails the transaction is rolled back,
\* also with the caller's context done, and a non-nil error is returned; no
\* transaction is left open when WithinTx has returned.
C35_WithinTx ==
    [][\A r \in Runs :
         /\ pc[r] = "commit" =>
                tx[r].open /\ tx[r].sql /\ tx[r].row /\ err[r] = "nil"
         /\ (pc[r] \in {"execSql", "insert"} /\ pc'[r] \notin {"execSql", "insert"})
                => /\ (pc'[r] = "commit") <=> (err'[r] = "nil")
                   /\ err'[r] # "nil" =>
                          \/ pc'[r] = "rollback" /\ tx'[r].open
                          \/ pc'[r] = "unlock" /\ tx'[r] = NoTx
                   /\ ledger' = ledger
         /\ (pc[r] = "commit" /\ pc'[r] # "commit")
                => \/ pc'[r] = "provider" /\ err'[r] = "nil" /\ tx'[r] = NoTx
                   \/ pc'[r] = "rollback" /\ err'[r] # "nil" /\ ledger' = ledger
                   \/ /\ pc'[r] = "unlock" /\ err'[r] # "nil"
                      /\ tx'[r] = NoTx /\ ledger' = ledger
         /\ (pc[r] = "rollback" /\ pc'[r] # "rollback")
                => /\ tx'[r] = NoTx
                   /\ err'[r] # "nil"
                   /\ pc'[r] = "unlock"
                   /\ ledger' = ledger
         /\ pc[r] \notin (TxPcs \cup {"rollback"}) => ~tx[r].open]_vars

\* The callback failed on the ledger insert because the caller's context
\* is done, and the open transaction is about to be rolled back.
C35_Witness ==
    \E r \in Runs :
        /\ pc[r] = "rollback"
        /\ ctxDone[r]
        /\ err[r] = "ctxErr"
        /\ tx[r].open /\ tx[r].sql /\ ~tx[r].row

\* C36: the tokenizer terminates: every pass through the outer loop and
\* through the statement loop either returns or strictly increases the byte
\* offset, and the offset never exceeds the length of the input.
C36_LoopsAdvance ==
    /\ loop.ofs <= Len(content)
    /\ loop.iterOfs <= loop.ofs
    /\ loop.mode = "outer" =>
           LET n == OuterIteration(content, loop) IN
           /\ loop.ofs = loop.iterOfs
           /\ \/ n.mode = "done"
              \/ n.mode = "outer" /\ n.ofs > loop.ofs
              \/ n.mode = "sql" /\ n.ofs = loop.ofs /\ loop.ofs < Len(content)
    /\ loop.mode = "sql" =>
           LET n == SqlIteration(content, loop) IN
           IF loop.ofs < Len(content)
           THEN n.mode = "done" \/ n.ofs > loop.ofs
           ELSE n.mode = "outer" /\ n.ofs > loop.iterOfs

\* A call went through a header, a comment inside a statement, a quoted
\* string and a dollar body, emitted two steps and returned at the end of
\* the input.
C36_Witness ==
    /\ loop.mode = "done"
    /\ loop.result.err = "nil"
    /\ loop.ofs = Len(content)
    /\ script = <<SpaceWord, HeaderA, QuoteS, Semi, DollarT>>
    /\ Len(loop.result.steps) = 2

\* The script has a '$' in statement text that opens no well-formed tag,
\* and the script has such a '$' there or in a comment.
HasParam(sc) == \E i \in 1..Len(sc) : sc[i] \in {ParamSp, ParamSemi, ParamEnd}

HasDollarOutsideQuotes(sc) ==
    HasParam(sc) \/ \E i \in 1..Len(sc) : sc[i] = CommentParam

\* C37 as stated: outside quoted spans every '$' must open a well-formed
\* dollar tag, otherwise the parse fails with a dollar-tag error.
C37_EveryDollarOpensTag ==
    (parsed # NotParsed /\ HasDollarOutsideQuotes(script)) =>
        parsed.err \in {"invalid SQL content (dollar tag)",
                        "invalid SQL content (open dollar tag)"}

\* C37 (amended): outside quoted spans and comments every '$' must open a
\* well-formed dollar tag: a '$' followed by characters that are not all
\* tag characters up to the next '$', or by the end of the input, fails the
\* parse with the dollar-tag error; a '$' in a comment does not.
C37_DollarInStatementOpensTag ==
    (parsed # NotParsed) =>
        /\ HasParam(script) <=> parsed.err = "invalid SQL content (dollar tag)"
        /\ ~HasParam(script) => parsed.err = "nil"
        /\ parsed.err # "nil" => parsed.isNil

\* A statement with a well-formed dollar body and then "$1;" was rejected.
C37_Witness ==
    /\ script = <<Word, DollarT, Semi, Word, ParamSemi>>
    /\ parsed.err = "invalid SQL content (dollar tag)"

\* C38 (as stated): the calls made to the registered error handler strictly
\* alternate between a non-nil error and nil, starting with a non-nil error,
\* and every non-nil one carries a database error.
C38_CallsAlternate ==
    /\ Alternates(hcalls)
    /\ \A i \in 1..Len(hcalls) : hcalls[i] \in {"dberr", "nil"}

\* C38 (amended): the calls made to an error handler that was registered
\* while no error was latched alternate between a non-nil error and nil,
\* starting with a non-nil error; the handler has been told of an error and
\* not yet of its end exactly while an error is latched; a non-nil
\* notification always carries a database error, never no-rows or an error
\* of another kind.
C38_CallsAlternateWhenRegisteredClear ==
    /\ regClear => Alternates(hcalls)
    /\ (regClear /\ errHandler # "nil") =>
           ((errLast # "nil") <=> (Len(hcalls) % 2 = 1))
    /\ \A i \in 1..Len(hcalls) : hcalls[i] \in {"dberr", "nil"}

\* Two rounds of error and recovery reported to a handler while a further
\* database error of another goroutine waits behind the latch.
C38_Witness ==
    /\ regClear
    /\ hcalls = <<"dberr", "nil", "dberr">>
    /\ \E g \in Goroutines : gpc[g] = "processError" /\ pending[g] = "dberr"

\* C39: the handler runs with db.err.mutex held; a goroutine that calls
\* SetEventHandler, Close or an operation ending in processError from inside
\* the handler stays at the Lock of that call for ever, the mutex stays with
\* it, and no other goroutine waiting for the mutex gets past its Lock.
C39_HandlerReentryDeadlocks ==
    [][/\ \A g \in Goroutines : gpc[g] = "inHandler" => errMutex = g
       /\ \A g \in Goroutines :
              Reentered(g) =>
                  /\ errMutex = g
                  /\ gpc'[g] = gpc[g]
                  /\ errMutex' = g
                  /\ \A o \in Goroutines :
                         gpc[o] \in {"processError", "SetEventHandler"} =>
                             gpc'[o] = gpc[o]]_vars

\* A handler called Close and waits inside SetEventHandler(nil) while another
\* goroutine waits inside processError.
C39_Witness ==
    \E g, o \in Goroutines :
        /\ g # o
        /\ Reentered(g)
        /\ gpc[g] = "SetEventHandler"
        /\ ~poolOpen
        /\ gpc[o] = "processError"

\* C40: the callback is invoked with the indices 0, 1, 2, ... in order, each
\* once; after an invocation that returned an error or a nil row there is no
\* further invocation and that Next and every later Next return false; the
\* rows Values returns are rows of the callback, each returned at most once,
\* and Values returns an error unless the call before it was a Next that
\* returned true.
C40_OneWaySequence ==
    /\ \A k \in 1..Len(cbLog) : cbLog[k].idx = k - 1
    /\ \A k \in 1..Len(cbLog) :
           cbLog[k].res # "row" =>
               /\ k = Len(cbLog)
               /\ \A j \in cbLog[k].at..Len(copyTrace) : ~NextOk(j)
    /\ \A j \in 1..Len(copyTrace) :
           ValuesOk(j) =>
               /\ \E k \in 1..Len(cbLog) :
                      cbLog[k].res = "row" /\ cbLog[k].idx = copyTrace[j].row
               /\ \A i \in 1..(j - 1) :
                      ValuesOk(i) => copyTrace[i].row # copyTrace[j].row
               /\ j > 1 /\ NextOk(j - 1)

\* A row is fetched and handed out, a second Values fails, the callback then
\* returns a nil row and one more Next is made.
C40_Witness ==
    /\ Len(copyTrace) = 5
    /\ NextOk(1)
    /\ ValuesOk(2)
    /\ copyTrace[3].op = "Values" /\ ~copyTrace[3].ok
    /\ cbLog = <<[idx |-> 0, res |-> "row", at |-> 1],
                 [idx |-> 1, res |-> "nilRow", at |-> 4]>>
    /\ copyTrace[5].op = "Next"

====
